---- MODULE Spec2Model ----
(***************************************************************************)
(* Exhibit generator: the compression fallback engine                      *)
(* (compress_handler.py, USCISPDFCompressor) and the exhibit pipeline      *)
(* (app.py, generate_exhibits and its URL / Drive variants).               *)
(*                                                                         *)
(* SpecC is the compression engine alone: one call of compress on one      *)
(* input path, the external tools being the environment.                   *)
(* Spec is one run of the pipeline in a fresh Streamlit session, moving     *)
(* through its stages; SpecSession is a session in which runs follow each  *)
(* other.  SpecL (labelling), SpecR (Results tab), SpecM (merge_pdfs),     *)
(* SpecA (add_exhibit_number), SpecS (files of concurrent runs) and SpecB  *)
(* (progress reports) take one component each in more detail, as do SpecI  *)
(* (the calls a run makes to its components), SpecZ (the statistics of a   *)
(* batch with empty documents), SpecT (the table of contents), SpecD (the  *)
(* names of downloaded files), SpecP (exhibit_processor.py,                *)
(* ExhibitProcessor) and SpecN (to_roman, statement by statement).         *)
(***************************************************************************)
EXTENDS Integers, Sequences, FiniteSets, TLC

(***************************************************************************)
(* Bounds of the model.                                                    *)
(***************************************************************************)
\* largest byte size of a document (sizes are 0..MaxSize)
MaxSize == 3

(***************************************************************************)
(* Values.                                                                 *)
(***************************************************************************)
\* Python's None
NULL == "<None>"

\* the values smallpdf_api_key takes: None, the empty string, a key
ApiKeys == {NULL, "", "sk_key"}

\* bool(x) of an optional string, as `if self.smallpdf_api_key:` reads it
Truthy(x) == x \notin {NULL, ""}

QUALITY_PRESETS == {"high", "balanced", "maximum"}

\* the path compress is called on in SpecC
InputPath == "a.pdf"

\* _get_temp_path: compressed_<name> beside the input
GetTempPath(input_path) == "compressed_" \o input_path

\* a file of the file system: missing, or a document of some byte size;
\* valid tells whether a PDF reader can open it
NoFile == [exists |-> FALSE, size |-> 0, valid |-> FALSE]
File(size, valid) == [exists |-> TRUE, size |-> size, valid |-> valid]

\* the documents an input path may hold: nothing, an unreadable document
\* (zero-length or corrupt) or a valid non-empty PDF
InputFiles ==
    {NoFile} \cup {File(s, FALSE) : s \in 0..MaxSize}
             \cup {File(s, TRUE) : s \in 1..MaxSize}

(***************************************************************************)
(* What one strategy's tool does when it is run: the environment.          *)
(*   absent : the tool is not there (gs not installed, fitz not            *)
(*            importable, the SmallPDF service not reachable)              *)
(*   error  : the tool raises while processing                             *)
(*   nofile : the tool ends normally and leaves no output file             *)
(*   wrote  : the tool ends normally and leaves an output of `size` bytes, *)
(*            readable as a PDF or not                                     *)
(***************************************************************************)
ToolOutcomes ==
    {[kind |-> k, size |-> 0, valid |-> FALSE] : k \in {"absent", "error", "nofile"}}
        \cup {[kind |-> "wrote", size |-> s, valid |-> FALSE] : s \in 0..MaxSize}
        \cup {[kind |-> "wrote", size |-> s, valid |-> TRUE] : s \in 1..MaxSize}

MethodNames == {"ghostscript", "pymupdf", "smallpdf"}

\* only Ghostscript's output is read back from disk after the process ended;
\* doc.save and open(output_path, 'wb') create the file or raise
ToolEnvs ==
    {e \in [MethodNames -> ToolOutcomes] :
        /\ e["pymupdf"].kind # "nofile"
        /\ e["smallpdf"].kind # "nofile"}

(***************************************************************************)
(* round((1 - compressed/original) * 100, 2), in hundredths of a percent.  *)
(* Only called with original > 0 (the division raises otherwise).  For     *)
(* sizes below 32 the quotient is never halfway between two hundredths,    *)
(* so the rounding mode does not matter.                                   *)
(***************************************************************************)
RoundDiv(n, d) == (2 * n + d) \div (2 * d)

\* a plausible slip: the ratio kept instead of the reduction
ReductionAsRatio(original_size, compressed_size) ==
    RoundDiv(compressed_size * 10000, original_size)

Reduction(original_size, compressed_size) ==
    RoundDiv((original_size - compressed_size) * 10000, original_size)

\* the dictionary a strategy returns when it went through
SuccessResult(method, output_path, original_size, compressed_size, quality) ==
    [success |-> TRUE,
     output_path |-> output_path,
     original_size |-> original_size,
     compressed_size |-> compressed_size,
     reduction_percent |-> Reduction(original_size, compressed_size),
     method |-> method,
     quality_preset |-> quality]

\* the dictionary returned when the loop over the methods ends
AllFailedResult(input_path, original_size) ==
    [success |-> FALSE,
     output_path |-> input_path,
     original_size |-> original_size,
     compressed_size |-> original_size,
     reduction_percent |-> 0,
     method |-> "none",
     quality_preset |-> NULL]

\* no dictionary: compress has not returned, or it raised
NoResult ==
    [success |-> FALSE, output_path |-> NULL, original_size |-> 0,
     compressed_size |-> 0, reduction_percent |-> 0, method |-> NULL,
     quality_preset |-> NULL]

(***************************************************************************)
(* One strategy on one input: [ok, result, fs].  ok = FALSE is an          *)
(* exception raised by the strategy; fs is the file system it leaves.      *)
(***************************************************************************)
Raised(fs) == [ok |-> FALSE, result |-> NoResult, fs |-> fs]

\* the file system after the tool ran: its output written, or nothing touched
Written(fs, output_path, tool) ==
    IF tool.kind = "wrote"
    THEN [fs EXCEPT ![output_path] = File(tool.size, tool.valid)]
    ELSE fs

\* _compress_ghostscript
CompressGhostscript(input_path, output_path, fs, tool, quality) ==
    IF tool.kind = "absent" THEN Raised(fs)               \* _check_ghostscript
    ELSE IF ~fs[input_path].exists THEN Raised(fs)        \* getsize(input_path)
    ELSE IF tool.kind = "error" THEN Raised(fs)           \* subprocess.run(check=True)
    ELSE LET after == Written(fs, output_path, tool)
         IN  IF ~after[output_path].exists
             THEN Raised(after)                           \* getsize(output_path)
             ELSE IF fs[input_path].size = 0
             THEN Raised(after)                           \* ZeroDivisionError
             ELSE [ok |-> TRUE,
                   result |-> SuccessResult("ghostscript", output_path,
                                            fs[input_path].size,
                                            after[output_path].size, quality),
                   fs |-> after]

\* _compress_pymupdf
CompressPymupdf(input_path, output_path, fs, tool, quality) ==
    IF tool.kind = "absent" THEN Raised(fs)               \* import fitz
    ELSE IF ~fs[input_path].exists \/ ~fs[input_path].valid
         THEN Raised(fs)                                  \* fitz.open(input_path)
    ELSE IF tool.kind # "wrote" THEN Raised(fs)           \* doc.save
    ELSE LET after == Written(fs, output_path, tool)
         IN  IF fs[input_path].size = 0
             THEN Raised(after)                           \* ZeroDivisionError
             ELSE [ok |-> TRUE,
                   result |-> SuccessResult("pymupdf", output_path,
                                            fs[input_path].size,
                                            after[output_path].size, quality),
                   fs |-> after]

\* _compress_smallpdf
CompressSmallpdf(input_path, output_path, fs, tool, api_key) ==
    IF ~Truthy(api_key) THEN Raised(fs)                   \* no API key
    ELSE IF ~fs[input_path].exists THEN Raised(fs)        \* getsize(input_path)
    ELSE IF tool.kind # "wrote" THEN Raised(fs)           \* requests, raise_for_status
    ELSE LET after == Written(fs, output_path, tool)
         IN  IF fs[input_path].size = 0
             THEN Raised(after)                           \* ZeroDivisionError
             ELSE [ok |-> TRUE,
                   result |-> SuccessResult("smallpdf", output_path,
                                            fs[input_path].size,
                                            tool.size, "recommended"),
                   fs |-> after]

\* method_func(input_path, output_path) for the method of that name
MethodFunc(method, input_path, output_path, fs, env, api_key, quality) ==
    CASE method = "ghostscript" ->
            CompressGhostscript(input_path, output_path, fs, env[method], quality)
      [] method = "pymupdf" ->
            CompressPymupdf(input_path, output_path, fs, env[method], quality)
      [] method = "smallpdf" ->
            CompressSmallpdf(input_path, output_path, fs, env[method], api_key)

\* a plausible slip: the paid strategy listed whether or not a key was given
MethodsAlwaysSmallpdf(api_key) == <<"ghostscript", "pymupdf", "smallpdf">>

\* the list `methods` compress builds
Methods(api_key) ==
    <<"ghostscript", "pymupdf">>
        \o (IF Truthy(api_key) THEN <<"smallpdf">> ELSE <<>>)

\* a plausible slip: the loop going on after a success
StopsLoopNever(r) == FALSE

\* `if result['success']: return result`
StopsLoop(r) == r.ok /\ r.result.success

\* a line of the compressor's log
LogLine(line, method) == [line |-> line, method |-> method]

(***************************************************************************)
(* The loop of compress from its i-th method on.  log holds the lines      *)
(* logged so far: "attempting" <method> before each strategy,              *)
(* "successful" <method> or "failed" <method> after it, "all_failed" when  *)
(* the list is exhausted.  Gives [raised, result, fs, log]; raised = TRUE  *)
(* is an exception leaving compress.                                       *)
(***************************************************************************)
\* a plausible slip: the exception of a strategy leaving compress uncaught
RECURSIVE TryMethodsUncaught(_, _, _, _, _, _, _, _, _)
TryMethodsUncaught(methods, i, input_path, output_path, fs, env, api_key, quality, log) ==
    IF i > Len(methods)
    THEN LET log2 == Append(log, LogLine("all_failed", "none"))
         IN  IF ~fs[input_path].exists
             THEN [raised |-> TRUE, result |-> NoResult, fs |-> fs, log |-> log2]
             ELSE [raised |-> FALSE,
                   result |-> AllFailedResult(input_path, fs[input_path].size),
                   fs |-> fs, log |-> log2]
    ELSE LET r == MethodFunc(methods[i], input_path, output_path, fs, env,
                             api_key, quality)
             log1 == Append(log, LogLine("attempting", methods[i]))
         IN  IF ~r.ok
             THEN [raised |-> TRUE, result |-> NoResult, fs |-> r.fs, log |-> log1]
             ELSE IF r.result.success
             THEN [raised |-> FALSE, result |-> r.result, fs |-> r.fs,
                   log |-> Append(log1, LogLine("successful", methods[i]))]
             ELSE TryMethodsUncaught(methods, i + 1, input_path, output_path,
                                     r.fs, env, api_key, quality, log1)

RECURSIVE TryMethods(_, _, _, _, _, _, _, _, _)
TryMethods(methods, i, input_path, output_path, fs, env, api_key, quality, log) ==
    IF i > Len(methods)
    THEN LET log2 == Append(log, LogLine("all_failed", "none"))
         IN  IF ~fs[input_path].exists                    \* getsize(input_path)
             THEN [raised |-> TRUE, result |-> NoResult, fs |-> fs, log |-> log2]
             ELSE [raised |-> FALSE,
                   result |-> AllFailedResult(input_path, fs[input_path].size),
                   fs |-> fs, log |-> log2]
    ELSE LET r == MethodFunc(methods[i], input_path, output_path, fs, env,
                             api_key, quality)
             log1 == Append(log, LogLine("attempting", methods[i]))
             log2 == IF ~r.ok
                     THEN Append(log1, LogLine("failed", methods[i]))
                     ELSE IF r.result.success
                     THEN Append(log1, LogLine("successful", methods[i]))
                     ELSE log1
         IN  IF StopsLoop(r)
             THEN [raised |-> FALSE, result |-> r.result, fs |-> r.fs,
                   log |-> log2]
             ELSE TryMethods(methods, i + 1, input_path, output_path, r.fs,
                             env, api_key, quality, log2)

\* USCISPDFCompressor.compress(input_path), output_path left to default
Compress(input_path, fs, env, api_key, quality) ==
    TryMethods(Methods(api_key), 1, input_path, GetTempPath(input_path),
               fs, env, api_key, quality, <<>>)

(***************************************************************************)
(* The state of the compression engine.                                   *)
(***************************************************************************)
VARIABLES
    quality_preset,     \* self.quality_preset
    smallpdf_api_key,   \* self.smallpdf_api_key
    cinput,             \* the document the caller has put at InputPath
    cfs,                \* the files at InputPath and at its temp output path
    cstate,             \* "idle" | "returned" | "raised": how the last call ended
    cresult,            \* the dictionary the last call returned
    clog,               \* the lines the last call logged, in order
    cenv                \* what the tools did during the last call

cvars == <<quality_preset, smallpdf_api_key, cinput, cfs, cstate, cresult, clog, cenv>>

CPaths == {InputPath, GetTempPath(InputPath)}

IdleEnv == [m \in MethodNames |-> [kind |-> "absent", size |-> 0, valid |-> FALSE]]

(***************************************************************************)
(* State of the components that are modelled on their own, further down.   *)
(* Every action leaves the variables of the other components unchanged.    *)
(***************************************************************************)
VARIABLES
    lstyle,     \* numbering_style of the labelling loop
    ldocs,      \* len(file_paths) of the labelling loop
    labels      \* the exhibit numbers assigned so far, by position

lvars == <<lstyle, ldocs, labels>>

\* the labelling loop has not run
LabelsIdle ==
    /\ lstyle = "letters"
    /\ ldocs = 0
    /\ labels = <<>>

VARIABLES
    current_numbering_style     \* st.session_state.current_numbering_style

VARIABLES
    mfs,        \* the files of merge_pdfs's inputs, by path
    pdf_paths,  \* merge_pdfs: pdf_paths
    mstate,     \* "idle", "returned" or "raised"
    merged,     \* the pages of the file written at output_path, in order
    mdiag       \* the diagnostics merge_pdfs has printed or logged

mvars == <<mfs, pdf_paths, mstate, merged, mdiag>>

\* merge_pdfs is not called
MergeIdle ==
    /\ mfs = <<>>
    /\ pdf_paths = <<>>
    /\ mstate = "idle"
    /\ merged = <<>>
    /\ mdiag = <<>>

VARIABLES
    adocs,      \* the documents of the batch handed to add_exhibit_number
    aenable,    \* PDFHandler.enable_compression
    ai,         \* documents the numbering loop has been through
    anumbered,  \* what add_exhibit_number returned, per document
    aexhibits,  \* the exhibit records appended, per document
    astate      \* "idle", "running", "done" or "raised"

avars == <<adocs, aenable, ai, anumbered, aexhibits, astate>>

\* no batch is being numbered
AnnotateIdle ==
    /\ adocs = <<>>
    /\ aenable = FALSE
    /\ ai = 0
    /\ anumbered = <<>>
    /\ aexhibits = <<>>
    /\ astate = "idle"

VARIABLES
    pc,         \* where each concurrent run is in its function
    rcfg,       \* the uploaded file's name and the options of each run
    disk,       \* the files that exist, each with the run that wrote it last
    accesses,   \* every write and read of a path a run has made
    clock       \* the wall clock, in seconds

svars == <<pc, rcfg, disk, accesses, clock>>

\* no run has touched the disk
StorageIdle ==
    /\ pc = <<>>
    /\ rcfg = <<>>
    /\ disk = {}
    /\ accesses = {}
    /\ clock = 0

VARIABLES
    bloop,      \* which loop runs: "compress_pdf_batch", "process_exhibits"
                \* or "app_compress"
    btotal,     \* the number of documents of the loop
    bcallback,  \* whether progress is reported (on_progress is not None)
    bi,         \* the index of the turn of the loop
    bphase,     \* "top", "body" or "after" in a turn; "done" after the loop
    bprocessed, \* the documents whose operation has finished
    bevents     \* the progress events reported, in order

bvars == <<bloop, btotal, bcallback, bi, bphase, bprocessed, bevents>>

\* no loop runs
ProgressIdle ==
    /\ bloop = NULL
    /\ btotal = 0
    /\ bcallback = FALSE
    /\ bi = 0
    /\ bphase = "done"
    /\ bprocessed = 0
    /\ bevents = <<>>

VARIABLES
    icfg,        \* the options of the run whose calls are recorded
    iphase,      \* "idle", "compress", "number", "toc", "merge" or "done"
    ipos,        \* documents the loop of the phase has been through
    invocations  \* the calls made to the components, in order

ivars == <<icfg, iphase, ipos, invocations>>

NoCalls ==
    [ndocs |-> 0, enable_compression |-> FALSE, available |-> FALSE,
     add_toc |-> FALSE, merge_pdfs |-> FALSE]

\* no run is being recorded
InvocationsIdle ==
    /\ icfg = NoCalls
    /\ iphase = "idle"
    /\ ipos = 0
    /\ invocations = <<>>

VARIABLES
    zfiles,             \* the saved documents of the batch, any byte size
    zkey,               \* the SmallPDF key the handler was created with
    zi,                 \* documents the compression loop has been through
    zresults,           \* compression_results
    ztotal_original,    \* total_original_size
    ztotal_compressed,  \* total_compressed_size
    zavg,               \* avg_reduction, and whether it has been computed
    zdivided,           \* the documents on which a strategy divided by 0
    zstate              \* "idle", "compressing", "done" or "raised"

zvars == <<zfiles, zkey, zi, zresults, ztotal_original, ztotal_compressed,
           zavg, zdivided, zstate>>

NoAverage == [computed |-> FALSE, value |-> 0]

\* no batch is being compressed
BatchIdle ==
    /\ zfiles = <<>>
    /\ zkey = NULL
    /\ zi = 0
    /\ zresults = <<>>
    /\ ztotal_original = 0
    /\ ztotal_compressed = 0
    /\ zavg = NoAverage
    /\ zdivided = {}
    /\ zstate = "idle"

VARIABLES
    tfunc,      \* the TOC function called
    tgiven,     \* the exhibit records as they were handed to the function
    texhibits,  \* the exhibit records, as the function leaves them
    trows,      \* the data rows of the exhibit table, in order
    tstate      \* "idle", "returned" or "raised"

tvars == <<tfunc, tgiven, texhibits, trows, tstate>>

\* no table of contents is being generated
TocIdle ==
    /\ tfunc = NULL
    /\ tgiven = <<>>
    /\ texhibits = <<>>
    /\ trows = <<>>
    /\ tstate = "idle"

VARIABLES
    dvariant,   \* "urls" or "drive": which pipeline downloads
    dsources,   \* urls, or drive_files
    di,         \* sources the download loop has been through
    dpaths,     \* file_paths
    dorigin,    \* the source each element of file_paths was downloaded from
    ddisk,      \* the files of tmp_dir: the path and the source of the content
    dwarnings   \* st.warning calls of the loop

dvars == <<dvariant, dsources, di, dpaths, dorigin, ddisk, dwarnings>>

\* no download loop runs
DownloadsIdle ==
    /\ dvariant = NULL
    /\ dsources = <<>>
    /\ di = 0
    /\ dpaths = <<>>
    /\ dorigin = <<>>
    /\ ddisk = {}
    /\ dwarnings = 0

VARIABLES
    rhandler    \* the handler of the Results tab that ran last (NULL: none)

rvars == <<rhandler>>

\* no handler of the Results tab has run
ResultsTabIdle ==
    /\ rhandler = NULL

VARIABLES
    pexhibits,  \* ExhibitProcessor.exhibits
    padded,     \* the sources of the add calls since the last clear, in order
    pcleared,   \* whether clear_exhibits has been called
    ppackage    \* what process_exhibits did, if it was the last call

pvars == <<pexhibits, padded, pcleared, ppackage>>

\* no package: the last call was not process_exhibits
NoPackage ==
    [state |-> "none", exhibits |-> <<>>, total_exhibits |-> 0,
     successful_exhibits |-> 0, failed_exhibits |-> 0]

\* ExhibitProcessor.__init__
ProcessorIdle ==
    /\ pexhibits = <<>>
    /\ padded = <<>>
    /\ pcleared = FALSE
    /\ ppackage = NoPackage

VARIABLES
    narg,        \* to_roman: the argument of the call
    nnum,        \* num
    ni,          \* i
    nroman_num,  \* roman_num
    nleft,       \* the iterations the for loop still has to make
    npc          \* where the call is: "while", "for", "done", "IndexError"

nvars == <<narg, nnum, ni, nroman_num, nleft, npc>>

\* no call of to_roman
ToRomanIdle ==
    /\ narg = 0
    /\ nnum = 0
    /\ ni = 0
    /\ nroman_num = ""
    /\ nleft = 0
    /\ npc = "idle"

\* the components added last, taken together
morevars == <<ivars, zvars, tvars, dvars, rvars, pvars, nvars>>

MoreIdle ==
    /\ InvocationsIdle
    /\ BatchIdle
    /\ TocIdle
    /\ DownloadsIdle
    /\ ResultsTabIdle
    /\ ProcessorIdle
    /\ ToRomanIdle

\* the components modelled on their own, taken together; a specification of
\* one of them starts the others idle and never moves them
restvars == <<lvars, current_numbering_style, mvars, avars, svars, bvars, morevars>>

RestIdle ==
    /\ LabelsIdle
    /\ current_numbering_style = "letters"
    /\ MergeIdle
    /\ AnnotateIdle
    /\ StorageIdle
    /\ ProgressIdle
    /\ MoreIdle

(***************************************************************************)
(* The exhibit pipeline: generate_exhibits (uploaded files or a ZIP),      *)
(* generate_exhibits_from_urls and generate_exhibits_from_drive.  The      *)
(* three functions share their body from the compression phase on; the     *)
(* differences are the ingestion loop and two existence checks.            *)
(***************************************************************************)
\* largest number of sources handed to one run
MaxSources == 2
\* byte size of an ingested document
DocSize == 2

VARIABLES
    exhibits_generated,     \* st.session_state.exhibits_generated
    compression_stats,      \* st.session_state.compression_stats
    exhibit_list,           \* st.session_state.exhibit_list
    output_file,            \* st.session_state.output_file (NULL: key not set)
    stage,                  \* where the run is
    cfg,                    \* the arguments of the run
    sources,                \* the sources of the run: can each materialize?
    i,                      \* documents the loop of the stage has been through
    file_paths,             \* file_paths (the documents, by index in sources)
    compression_results,    \* compression_results
    compress_returns,       \* method of each result compress returned, per document
    total_original_size,    \* total_original_size
    total_compressed_size,  \* total_compressed_size
    exhibits,               \* the local exhibit_list being built
    numbered_files,         \* numbered_files
    merge_status,           \* the branch the merge block took
    failed_in,              \* the stage a failed run ended in
    warnings                \* st.warning calls of the ingestion loop

session == <<exhibits_generated, compression_stats, exhibit_list, output_file>>
locals == <<i, file_paths, compression_results, compress_returns,
            total_original_size, total_compressed_size, exhibits,
            numbered_files, merge_status, failed_in, warnings>>
vars == <<session, stage, cfg, sources, locals>>

Variants == {"upload", "zip", "urls", "drive"}
NumberingStyles == {"letters", "numbers", "roman"}
Stages == <<"Idle", "Ingesting", "Compressing", "Numbering", "GeneratingTOC",
            "Merging", "Complete", "Failed">>

\* the arguments a run can be started with; the quality preset is left at
\* its default and no SmallPDF key is entered (SpecC covers the others)
Configs ==
    [variant : Variants,
     numbering_style : NumberingStyles,
     enable_compression : BOOLEAN,
     quality_preset : {"high"},
     smallpdf_api_key : {NULL},
     add_toc : BOOLEAN,
     merge_pdfs : BOOLEAN]

NoConfig ==
    [variant |-> NULL, numbering_style |-> NULL, enable_compression |-> FALSE,
     quality_preset |-> NULL, smallpdf_api_key |-> NULL, add_toc |-> FALSE,
     merge_pdfs |-> FALSE]

\* 1 to MaxSources sources, each one materializing or not
SourceLists ==
    UNION {[1..n -> [ok : BOOLEAN]] : n \in 1..MaxSources}

\* names of the documents, by index in sources
DocNames == <<"a", "b", "c", "d", "e", "f">>
FileNameOf(d) == DocNames[d] \o ".pdf"

NoStats ==
    [set |-> FALSE, original_size |-> 0, compressed_size |-> 0,
     avg_reduction |-> 0, method |-> NULL, quality |-> NULL]

NoCompression == [has |-> FALSE, reduction |-> 0, method |-> NULL]

(***************************************************************************)
(* Exhibit labels.                                                         *)
(***************************************************************************)
\* chr(65 + k) for k = 0..30: the capital letters, then the characters that
\* follow Z in the character set
CHR65 == <<"A", "B", "C", "D", "E", "F", "G", "H", "I", "J", "K", "L", "M",
           "N", "O", "P", "Q", "R", "S", "T", "U", "V", "W", "X", "Y", "Z",
           "[", "\\", "]", "^", "_">>

Digits == <<"0", "1", "2", "3", "4", "5", "6", "7", "8", "9">>

\* str(n) for n >= 0
RECURSIVE Str(_)
Str(n) == IF n < 10 THEN Digits[n + 1] ELSE Str(n \div 10) \o Digits[(n % 10) + 1]

RomanVal == <<1000, 900, 500, 400, 100, 90, 50, 40, 10, 9, 5, 4, 1>>
\* a plausible slip: the symbols of 4 and 5 written the other way round
RomanSymsSlip == <<"M", "CM", "D", "CD", "C", "XC", "L", "XL", "X", "IX", "V", "VI", "I">>

RomanSyms == <<"M", "CM", "D", "CD", "C", "XC", "L", "XL", "X", "IX", "V", "IV", "I">>

\* to_roman: the while loop at table position k (1-based), roman_num so far
RECURSIVE ToRomanFrom(_, _, _)
ToRomanFrom(num, k, roman_num) ==
    IF num <= 0 THEN roman_num
    ELSE IF num >= RomanVal[k]
         THEN ToRomanFrom(num - RomanVal[k], k, roman_num \o RomanSyms[k])
         ELSE ToRomanFrom(num, k + 1, roman_num)

ToRoman(num) == ToRomanFrom(num, 1, "")

\* the exhibit number of the document at 0-based position k
ExhibitNum(numbering_style, k) ==
    IF numbering_style = "letters" THEN CHR65[k + 1]
    ELSE IF numbering_style = "numbers" THEN Str(k + 1)
    ELSE ToRoman(k + 1)

(***************************************************************************)
(* Helpers of the stages.                                                  *)
(***************************************************************************)
\* (1 - total_compressed/total_original) * 100 if total_original > 0 else 0,
\* in hundredths of a percent
AvgReduction(original, compressed) ==
    IF original > 0 THEN RoundDiv((original - compressed) * 10000, original) ELSE 0

\* what the tools do when the pipeline compresses a document
AllAbsentEnv == IdleEnv
GhostscriptWrote(size) ==
    [IdleEnv EXCEPT !["ghostscript"] = [kind |-> "wrote", size |-> size, valid |-> TRUE]]
PipelineEnvs == {AllAbsentEnv, GhostscriptWrote(1)}

\* pdf_handler.compressor.compress(file_path) on an ingested document
CompressDoc(d, env, c) ==
    LET path == FileNameOf(d)
        fs == (path :> File(DocSize, TRUE)) @@ (GetTempPath(path) :> NoFile)
    IN  Compress(path, fs, env, c.smallpdf_api_key, c.quality_preset)

\* a plausible slip: the stages taken in a wrong order
StageAfterSkipping(st, c) ==
    CASE st = "Ingesting" -> "Numbering"
      [] st = "Compressing" -> "Numbering"
      [] st = "Numbering" -> IF c.enable_compression THEN "Compressing"
                             ELSE IF c.merge_pdfs THEN "Merging" ELSE "Complete"
      [] st = "GeneratingTOC" -> IF c.merge_pdfs THEN "Merging" ELSE "Complete"
      [] st = "Merging" -> "Complete"

\* the stage that follows stage st when st went through
StageAfter(st, c) ==
    CASE st = "Ingesting" ->
            IF c.enable_compression THEN "Compressing" ELSE "Numbering"
      [] st = "Compressing" -> "Numbering"
      [] st = "Numbering" ->
            IF c.add_toc THEN "GeneratingTOC"
            ELSE IF c.merge_pdfs THEN "Merging" ELSE "Complete"
      [] st = "GeneratingTOC" -> IF c.merge_pdfs THEN "Merging" ELSE "Complete"
      [] st = "Merging" -> "Complete"

\* the run goes on to the stage after st; reaching the end of the function
\* sets st.session_state.exhibits_generated
GoOn(st) ==
    /\ stage' = StageAfter(st, cfg)
    /\ exhibits_generated' =
          IF StageAfter(st, cfg) = "Complete" THEN TRUE ELSE exhibits_generated
    /\ i' = 0

\* the run ends without completing: a return after st.error, or an exception
\* caught by the except clause of the function
Abort ==
    /\ stage' = "Failed"
    /\ failed_in' = stage
    /\ UNCHANGED exhibits_generated

(***************************************************************************)
(* The actions of a run.                                                   *)
(***************************************************************************)
\* the "Generate Exhibits" button: the function is entered, its locals are
\* fresh, the session state is as the last run left it
StartRun(Cfgs, Srcs, From) ==
    /\ stage \in From
    /\ \E c \in Cfgs, s \in Srcs :
         /\ cfg' = c
         /\ sources' = s
    /\ stage' = "Ingesting"
    /\ i' = 0
    /\ file_paths' = <<>>
    /\ compression_results' = <<>>
    /\ compress_returns' = <<>>
    /\ total_original_size' = 0
    /\ total_compressed_size' = 0
    /\ exhibits' = <<>>
    /\ numbered_files' = <<>>
    /\ merge_status' = "none"
    /\ failed_in' = NULL
    /\ warnings' = 0
    /\ UNCHANGED session
    /\ UNCHANGED <<cvars, restvars>>

\* generate_exhibits, uploaded files: one file is saved; a failing write
\* raises out of the loop
IngestUpload ==
    /\ stage = "Ingesting"
    /\ cfg.variant = "upload"
    /\ i < Len(sources)
    /\ IF sources[i + 1].ok
       THEN /\ file_paths' = Append(file_paths, i + 1)
            /\ i' = i + 1
            /\ UNCHANGED <<stage, failed_in, exhibits_generated>>
       ELSE /\ Abort
            /\ UNCHANGED <<file_paths, i>>
    /\ UNCHANGED <<compression_stats, exhibit_list, output_file, cfg, sources,
                   compression_results, compress_returns, total_original_size,
                   total_compressed_size, exhibits, numbered_files,
                   merge_status, warnings>>
    /\ UNCHANGED <<cvars, restvars>>

\* the orders a directory walk can list the documents of D in
Orders(D) ==
    {f \in [1..Cardinality(D) -> D] :
        \A a, b \in 1..Cardinality(D) : a # b => f[a] # f[b]}

\* generate_exhibits, ZIP archive: extractall raises on an entry it cannot
\* extract; otherwise rglob lists the extracted PDFs in directory order
IngestZip ==
    /\ stage = "Ingesting"
    /\ cfg.variant = "zip"
    /\ i = 0
    /\ IF \A k \in 1..Len(sources) : sources[k].ok
       THEN /\ \E f \in Orders(1..Len(sources)) : file_paths' = f
            /\ i' = Len(sources)
            /\ UNCHANGED <<stage, failed_in, exhibits_generated>>
       ELSE /\ Abort
            /\ UNCHANGED <<file_paths, i>>
    /\ UNCHANGED <<compression_stats, exhibit_list, output_file, cfg, sources,
                   compression_results, compress_returns, total_original_size,
                   total_compressed_size, exhibits, numbered_files,
                   merge_status, warnings>>
    /\ UNCHANGED <<cvars, restvars>>

\* generate_exhibits_from_urls / _from_drive: one source is downloaded; a
\* failed download is warned about and the loop goes on
IngestDownload ==
    /\ stage = "Ingesting"
    /\ cfg.variant \in {"urls", "drive"}
    /\ i < Len(sources)
    /\ IF sources[i + 1].ok
       THEN /\ file_paths' = Append(file_paths, i + 1)
            /\ UNCHANGED warnings
       ELSE /\ warnings' = warnings + 1
            /\ UNCHANGED file_paths
    /\ i' = i + 1
    /\ UNCHANGED <<session, stage, cfg, sources, compression_results,
                   compress_returns, total_original_size,
                   total_compressed_size, exhibits, numbered_files,
                   merge_status, failed_in>>
    /\ UNCHANGED <<cvars, restvars>>

\* the end of ingestion: `if not file_paths: st.error(...); return`
IngestDone ==
    /\ stage = "Ingesting"
    /\ i = Len(sources)
    /\ IF file_paths = <<>>
       THEN Abort /\ UNCHANGED i
       ELSE GoOn("Ingesting") /\ UNCHANGED failed_in
    /\ UNCHANGED <<compression_stats, exhibit_list, output_file, cfg, sources,
                   file_paths, compression_results, compress_returns,
                   total_original_size, total_compressed_size, exhibits,
                   numbered_files, merge_status, warnings>>
    /\ UNCHANGED <<cvars, restvars>>

\* generate_exhibits only: some saved file is not found before compression;
\* st.error and return
CompressMissingFiles ==
    /\ stage = "Compressing"
    /\ cfg.variant \in {"upload", "zip"}
    /\ i = 0
    /\ Abort
    /\ UNCHANGED <<compression_stats, exhibit_list, output_file, cfg, sources,
                   i, file_paths, compression_results, compress_returns,
                   total_original_size, total_compressed_size, exhibits,
                   numbered_files, merge_status, warnings>>
    /\ UNCHANGED <<cvars, restvars>>

\* the compression loop, a file that is not found: st.warning and continue
CompressSkip ==
    /\ stage = "Compressing"
    /\ i < Len(file_paths)
    /\ i' = i + 1
    /\ compress_returns' = Append(compress_returns, "skipped")
    /\ UNCHANGED <<session, stage, cfg, sources, file_paths,
                   compression_results, total_original_size,
                   total_compressed_size, exhibits, numbered_files,
                   merge_status, failed_in, warnings>>
    /\ UNCHANGED <<cvars, restvars>>

\* the compression loop, one document: only a result with success is kept
CompressStep(Envs) ==
    /\ stage = "Compressing"
    /\ i < Len(file_paths)
    /\ \E env \in Envs :
         LET r == CompressDoc(file_paths[i + 1], env, cfg)
         IN  IF r.raised
             THEN /\ Abort
                  /\ UNCHANGED <<i, compression_results, compress_returns,
                                 total_original_size, total_compressed_size>>
             ELSE /\ i' = i + 1
                  /\ compress_returns' = Append(compress_returns, r.result.method)
                  /\ IF r.result.success
                     THEN /\ compression_results' =
                                Append(compression_results, r.result)
                          /\ total_original_size' =
                                total_original_size + r.result.original_size
                          /\ total_compressed_size' =
                                total_compressed_size + r.result.compressed_size
                     ELSE UNCHANGED <<compression_results, total_original_size,
                                      total_compressed_size>>
                  /\ UNCHANGED <<stage, failed_in, exhibits_generated>>
    /\ UNCHANGED <<compression_stats, exhibit_list, output_file, cfg, sources,
                   file_paths, exhibits, numbered_files, merge_status, warnings>>
    /\ UNCHANGED <<cvars, restvars>>

\* the end of the compression phase: the statistics are stored if at least
\* one result was kept
CompressDone ==
    /\ stage = "Compressing"
    /\ i = Len(file_paths)
    /\ compression_stats' =
          IF compression_results # <<>>
          THEN [set |-> TRUE,
                original_size |-> total_original_size,
                compressed_size |-> total_compressed_size,
                avg_reduction |-> AvgReduction(total_original_size,
                                               total_compressed_size),
                method |-> compression_results[1].method,
                quality |-> cfg.quality_preset]
          ELSE compression_stats
    /\ GoOn("Compressing")
    /\ UNCHANGED <<exhibit_list, output_file, cfg, sources, file_paths,
                   compression_results, compress_returns, total_original_size,
                   total_compressed_size, exhibits, numbered_files,
                   merge_status, failed_in, warnings>>
    /\ UNCHANGED <<cvars, restvars>>

\* pages of document d, as get_pdf_page_count reads them
PagesOf(d) == d

\* the file add_exhibit_number returns: the numbered copy, or the path it was
\* given if numbering failed
NumberedFile(d, exhibit_num, annotated) ==
    IF annotated
    THEN "Exhibit_" \o exhibit_num \o "_" \o FileNameOf(d)
    ELSE FileNameOf(d)

\* exhibit_info of the document at 0-based position k
ExhibitInfo(d, k, exhibit_num, results) ==
    [number |-> exhibit_num,
     title |-> DocNames[d],
     filename |-> FileNameOf(d),
     pages |-> PagesOf(d),
     compression |->
        IF k < Len(results) /\ results[k + 1].success
        THEN [has |-> TRUE,
              reduction |-> results[k + 1].reduction_percent,
              method |-> results[k + 1].method]
        ELSE NoCompression]

\* the numbering loop, one document
NumberStep(Annotated) ==
    /\ stage = "Numbering"
    /\ i < Len(file_paths)
    /\ LET d == file_paths[i + 1]
           exhibit_num == ExhibitNum(cfg.numbering_style, i)
       IN  /\ \E a \in Annotated :
                numbered_files' =
                    Append(numbered_files, NumberedFile(d, exhibit_num, a))
           /\ exhibits' =
                Append(exhibits, ExhibitInfo(d, i, exhibit_num, compression_results))
    /\ i' = i + 1
    /\ UNCHANGED <<session, stage, cfg, sources, file_paths,
                   compression_results, compress_returns, total_original_size,
                   total_compressed_size, merge_status, failed_in, warnings>>
    /\ UNCHANGED <<cvars, restvars>>

\* the end of the numbering loop: st.session_state.exhibit_list = exhibit_list
NumberDone ==
    /\ stage = "Numbering"
    /\ i = Len(file_paths)
    /\ exhibit_list' = exhibits
    /\ GoOn("Numbering")
    /\ UNCHANGED <<compression_stats, output_file, cfg, sources, file_paths,
                   compression_results, compress_returns, total_original_size,
                   total_compressed_size, exhibits, numbered_files,
                   merge_status, failed_in, warnings>>
    /\ UNCHANGED <<cvars, restvars>>

\* generate_table_of_contents, then numbered_files.insert(0, toc_file); an
\* exception of the PDF library leaves the function
GenerateTOC(Built) ==
    /\ stage = "GeneratingTOC"
    /\ \E built \in Built :
         IF built
         THEN /\ numbered_files' = <<"TOC.pdf">> \o numbered_files
              /\ GoOn("GeneratingTOC")
              /\ UNCHANGED failed_in
         ELSE /\ Abort
              /\ UNCHANGED <<numbered_files, i>>
    /\ UNCHANGED <<compression_stats, exhibit_list, output_file, cfg, sources,
                   file_paths, compression_results, compress_returns,
                   total_original_size, total_compressed_size, exhibits,
                   merge_status, warnings>>
    /\ UNCHANGED <<cvars, restvars>>

\* final_output: exhibit_package_<timestamp>.pdf in the system temp directory
FinalOutput == "exhibit_package.pdf"

(***************************************************************************)
(* The merge block.  What the file system and the PDF library answer:      *)
(*   missing_inputs : some numbered file is not found (generate_exhibits   *)
(*                    only): st.error, no merge                            *)
(*   raised         : merge_pdfs or shutil.copy raises                     *)
(*   not_created    : the merged file is not found: st.error               *)
(*   not_saved      : the copy is not found: st.error                      *)
(*   saved          : st.session_state.output_file = final_output          *)
(***************************************************************************)
MergeOutcomes == {"missing_inputs", "raised", "not_created", "not_saved", "saved"}

\* st.session_state.output_file after the merge block
OutputFileAfter(outcome, old) == IF outcome = "saved" THEN FinalOutput ELSE old

Merge(Outcomes) ==
    /\ stage = "Merging"
    /\ \E outcome \in Outcomes :
         /\ outcome = "missing_inputs" => cfg.variant \in {"upload", "zip"}
         /\ IF outcome = "raised"
            THEN /\ Abort
                 /\ UNCHANGED <<merge_status, output_file, i>>
            ELSE /\ merge_status' = outcome
                 /\ output_file' = OutputFileAfter(outcome, output_file)
                 /\ GoOn("Merging")
                 /\ UNCHANGED failed_in
    /\ UNCHANGED <<compression_stats, exhibit_list, cfg, sources, file_paths,
                   compression_results, compress_returns, total_original_size,
                   total_compressed_size, exhibits, numbered_files, warnings>>
    /\ UNCHANGED <<cvars, restvars>>

(***************************************************************************)
(* Spec: one run of the pipeline in a fresh session.                       *)
(***************************************************************************)
\* a fresh session: the initialisation of st.session_state, no run started
SessionInit ==
    /\ exhibits_generated = FALSE
    /\ compression_stats = NoStats
    /\ exhibit_list = <<>>
    /\ output_file = NULL
    /\ stage = "Idle"
    /\ cfg = NoConfig
    /\ sources = <<>>
    /\ i = 0
    /\ file_paths = <<>>
    /\ compression_results = <<>>
    /\ compress_returns = <<>>
    /\ total_original_size = 0
    /\ total_compressed_size = 0
    /\ exhibits = <<>>
    /\ numbered_files = <<>>
    /\ merge_status = "none"
    /\ failed_in = NULL
    /\ warnings = 0

\* the compressor of SpecC, not called
CompressorIdle ==
    /\ cinput = NoFile
    /\ cfs = [p \in CPaths |-> NoFile]
    /\ cstate = "idle"
    /\ cresult = NoResult
    /\ clog = <<>>
    /\ cenv = IdleEnv

Init ==
    /\ SessionInit
    /\ CompressorIdle
    /\ quality_preset = "high"
    /\ smallpdf_api_key = NULL
    /\ RestIdle

Next ==
    \/ StartRun(Configs, SourceLists, {"Idle"})
    \/ IngestUpload
    \/ IngestZip
    \/ IngestDownload
    \/ IngestDone
    \/ CompressMissingFiles
    \/ CompressSkip
    \/ CompressStep(PipelineEnvs)
    \/ CompressDone
    \/ NumberStep(BOOLEAN)
    \/ NumberDone
    \/ GenerateTOC(BOOLEAN)
    \/ Merge(MergeOutcomes)

Spec == Init /\ [][Next]_<<vars, cvars, restvars>>

(***************************************************************************)
(* SpecSession: one session in which runs follow each other: the button    *)
(* can be pressed again once a run has ended.                              *)
(***************************************************************************)
\* the runs of the session take uploaded files or URLs and number with
\* letters; the options of a run are free
SessionConfigs ==
    {c \in Configs : c.variant \in {"upload", "urls"} /\ c.numbering_style = "letters"}

NextSession ==
    \/ StartRun(SessionConfigs, SourceLists, {"Idle", "Complete", "Failed"})
    \/ IngestUpload
    \/ IngestDownload
    \/ IngestDone
    \/ CompressMissingFiles
    \/ CompressStep(PipelineEnvs)
    \/ CompressDone
    \/ NumberStep({TRUE})
    \/ NumberDone
    \/ GenerateTOC(BOOLEAN)
    \/ Merge(MergeOutcomes)

SpecSession == Init /\ [][NextSession]_<<vars, cvars, restvars>>

(***************************************************************************)
(* SpecC: the compression engine, called on its own.                       *)
(***************************************************************************)
\* USCISPDFCompressor.__init__, before any call
CInit ==
    /\ SessionInit
    /\ quality_preset \in QUALITY_PRESETS
    /\ smallpdf_api_key \in ApiKeys
    /\ CompressorIdle
    /\ RestIdle

\* the caller's document: some file, or none, is at the input path
PlaceInput ==
    /\ \E f \in InputFiles :
         /\ cinput' = f
         /\ cfs' = [cfs EXCEPT ![InputPath] = f]
    /\ cstate' = "idle"
    /\ cresult' = NoResult
    /\ clog' = <<>>
    /\ cenv' = IdleEnv
    /\ UNCHANGED <<quality_preset, smallpdf_api_key>>
    /\ UNCHANGED <<vars, restvars>>

\* one call compress(InputPath)
CallCompress ==
    /\ cstate = "idle"
    /\ \E env \in ToolEnvs :
         LET r == Compress(InputPath, cfs, env, smallpdf_api_key, quality_preset)
         IN  /\ cstate' = IF r.raised THEN "raised" ELSE "returned"
             /\ cresult' = r.result
             /\ clog' = r.log
             /\ cfs' = r.fs
             /\ cenv' = env
    /\ UNCHANGED <<quality_preset, smallpdf_api_key, cinput>>
    /\ UNCHANGED <<vars, restvars>>

CNext == PlaceInput \/ CallCompress

SpecC == CInit /\ [][CNext]_<<cvars, vars, restvars>>

(***************************************************************************)
(* SpecL: the labelling of a batch on its own: the loop over file_paths    *)
(* that derives one exhibit number per position (generate_exhibits and     *)
(* its variants; ExhibitProcessor.process_exhibits, letters only).         *)
(***************************************************************************)
\* largest number of documents of a batch
MaxDocs == 27

\* the pipeline, the compressor and the components added last are not
\* running
OthersIdleL ==
    /\ SessionInit
    /\ CompressorIdle
    /\ quality_preset = "high"
    /\ smallpdf_api_key = NULL
    /\ MoreIdle

LInit ==
    /\ lstyle \in NumberingStyles
    /\ ldocs \in 0..MaxDocs
    /\ labels = <<>>
    /\ current_numbering_style = "letters"
    /\ MergeIdle
    /\ AnnotateIdle
    /\ StorageIdle
    /\ ProgressIdle
    /\ OthersIdleL

\* one turn of the loop: the exhibit number of the next position
LabelNext ==
    /\ Len(labels) < ldocs
    /\ labels' = Append(labels, ExhibitNum(lstyle, Len(labels)))
    /\ UNCHANGED <<lstyle, ldocs, current_numbering_style>>
    /\ UNCHANGED <<vars, cvars, mvars, avars, svars, bvars, morevars>>

LNext == LabelNext

SpecL == LInit /\ [][LNext]_<<vars, cvars, restvars>>

(***************************************************************************)
(* SpecR: the Results tab after a completed run: the exhibit list of the   *)
(* session is reordered with the move-up and move-down buttons, and the    *)
(* numbering style is chosen in the sidebar.                               *)
(***************************************************************************)
\* largest number of exhibits of the list
MaxExhibits == 4

\* the exhibit list a completed run over n documents stored
ListOfRun(n, style) ==
    [k \in 1..n |-> ExhibitInfo(k, k - 1, ExhibitNum(style, k - 1), <<>>)]

\* the results a run kept when every document was compressed, each to
\* one byte, the document at position k from k + 1 bytes
ResultsOfRun(n) ==
    [k \in 1..n |->
        SuccessResult("ghostscript", GetTempPath(FileNameOf(k)), k + 1, 1, "high")]

\* the exhibit list a completed run over n compressed documents stored
ListOfCompressedRun(n, style) ==
    [k \in 1..n |->
        ExhibitInfo(k, k - 1, ExhibitNum(style, k - 1), ResultsOfRun(n))]

\* the statistics that run stored
StatsOfRun(n) ==
    [set |-> TRUE,
     original_size |-> (n * (n + 3)) \div 2,
     compressed_size |-> n,
     avg_reduction |-> AvgReduction((n * (n + 3)) \div 2, n),
     method |-> "ghostscript",
     quality |-> "high"]

\* a plausible slip: the exchange written as two assignments in a row
SwappedOverwriting(list, a, b) == [list EXCEPT ![a] = list[b]]

\* a plausible slip: the records keep the numbers they had
RenumberNot(list, style) == list

\* `for i, ex in enumerate(exhibit_list): ex['number'] = ...`
Renumber(list, style) ==
    [k \in 1..Len(list) |->
        [list[k] EXCEPT !.number = ExhibitNum(style, k - 1)]]

\* the records at the 1-based positions a and b exchanged
Swapped(list, a, b) == [list EXCEPT ![a] = list[b], ![b] = list[a]]

RInit ==
    /\ \E n \in 1..MaxExhibits, style \in NumberingStyles :
          \/ /\ exhibit_list = ListOfRun(n, style)
             /\ compression_stats = NoStats
          \/ /\ exhibit_list = ListOfCompressedRun(n, style)
             /\ compression_stats = StatsOfRun(n)
    /\ exhibits_generated = TRUE
    /\ stage = "Complete"
    /\ current_numbering_style \in NumberingStyles
    /\ output_file \in {NULL, FinalOutput}
    /\ cfg = NoConfig
    /\ sources = <<>>
    /\ i = 0
    /\ file_paths = <<>>
    /\ compression_results = <<>>
    /\ compress_returns = <<>>
    /\ total_original_size = 0
    /\ total_compressed_size = 0
    /\ exhibits = <<>>
    /\ numbered_files = <<>>
    /\ merge_status = "none"
    /\ failed_in = NULL
    /\ warnings = 0
    /\ CompressorIdle
    /\ quality_preset = "high"
    /\ smallpdf_api_key = NULL
    /\ LabelsIdle
    /\ MergeIdle
    /\ AnnotateIdle
    /\ StorageIdle
    /\ ProgressIdle
    /\ MoreIdle

\* what the handlers of the Results tab leave alone
ResultsFrame ==
    /\ UNCHANGED <<exhibits_generated, compression_stats, output_file, stage,
                   cfg, sources, locals>>
    /\ UNCHANGED <<cvars, lvars, mvars, avars, svars, bvars>>
    /\ UNCHANGED <<ivars, zvars, tvars, dvars, pvars, nvars>>

\* the selectbox of the sidebar
SelectNumbering ==
    /\ \E style \in NumberingStyles : current_numbering_style' = style
    /\ UNCHANGED exhibit_list
    /\ rhandler' = "select_numbering"
    /\ ResultsFrame

\* the "up" button of the exhibit at 0-based position actual_idx
MoveUp ==
    /\ exhibits_generated
    /\ \E actual_idx \in 0..(Len(exhibit_list) - 1) :
         /\ actual_idx # 0
         /\ exhibit_list' =
               Renumber(Swapped(exhibit_list, actual_idx + 1, actual_idx),
                        current_numbering_style)
    /\ rhandler' = "move_up"
    /\ UNCHANGED current_numbering_style
    /\ ResultsFrame

\* the "down" button of the exhibit at 0-based position actual_idx
MoveDown ==
    /\ exhibits_generated
    /\ \E actual_idx \in 0..(Len(exhibit_list) - 1) :
         /\ actual_idx # Len(exhibit_list) - 1
         /\ exhibit_list' =
               Renumber(Swapped(exhibit_list, actual_idx + 1, actual_idx + 2),
                        current_numbering_style)
    /\ rhandler' = "move_down"
    /\ UNCHANGED current_numbering_style
    /\ ResultsFrame

\* x.get('_original_index', 0)
OriginalIndexOf(ex) ==
    IF "_original_index" \in DOMAIN ex THEN ex["_original_index"] ELSE 0

\* list.sort(key=...): a stable sort, here by insertion of the last element
\* into the sorted rest
RECURSIVE SortedByOriginalIndex(_)
SortedByOriginalIndex(list) ==
    IF list = <<>> THEN <<>>
    ELSE LET rest == SortedByOriginalIndex(SubSeq(list, 1, Len(list) - 1))
             x == list[Len(list)]
             n == Cardinality({k \in 1..Len(rest) :
                                  OriginalIndexOf(rest[k]) <= OriginalIndexOf(x)})
         IN  SubSeq(rest, 1, n) \o <<x>> \o SubSeq(rest, n + 1, Len(rest))

\* the "Reset to Original Order" button, shown when the list has more than
\* one record: the list is sorted by '_original_index' if some record has
\* that key, and is left as it is otherwise
ResetToOriginalOrder ==
    /\ exhibits_generated
    /\ Len(exhibit_list) > 1
    /\ exhibit_list' =
          IF \E k \in 1..Len(exhibit_list) :
                "_original_index" \in DOMAIN exhibit_list[k]
          THEN SortedByOriginalIndex(exhibit_list)
          ELSE exhibit_list
    /\ rhandler' = "reset"
    /\ UNCHANGED current_numbering_style
    /\ ResultsFrame

RNext == SelectNumbering \/ MoveUp \/ MoveDown \/ ResetToOriginalOrder

SpecR == RInit /\ [][RNext]_<<vars, cvars, restvars>>

(***************************************************************************)
(* SpecM: PDFHandler.merge_pdfs on its own, called as the pipeline calls   *)
(* it: on the numbered files, the table of contents inserted at index 0    *)
(* when one was requested.  Which of the files exist, and with how many    *)
(* pages, is the environment's.                                            *)
(***************************************************************************)
\* largest number of numbered files handed to merge_pdfs
MaxMergeDocs == 2
\* largest page count of a file
MaxPages == 2

TocFile == "TOC.pdf"

\* the numbered files of the documents 1..MaxMergeDocs
MergeDocFiles ==
    {NumberedFile(d, ExhibitNum("letters", d - 1), TRUE) : d \in 1..MaxMergeDocs}

MergePaths == {TocFile} \cup MergeDocFiles

\* a path holds no file, a PDF of 1..MaxPages pages, or a file PyPDF2 cannot
\* read
MergeFileStates ==
    {[exists |-> FALSE, valid |-> FALSE, pages |-> 0],
     [exists |-> TRUE, valid |-> FALSE, pages |-> 0]} \cup
    {[exists |-> TRUE, valid |-> TRUE, pages |-> n] : n \in 1..MaxPages}

\* numbered_files.insert(0, toc_file) when add_toc
WithTOC(add_toc, files) == IF add_toc THEN <<TocFile>> \o files ELSE files

\* a plausible slip: only the first page of a file is appended
PagesOfFileFirst(path, fs) == <<<<path, 1>>>>

\* the pages merger.append(path) adds: all pages of the file, in order
PagesOfFile(path, fs) == [k \in 1..fs[path].pages |-> <<path, k>>]

\* the for loop of merge_pdfs from position k on, acc being the merger
RECURSIVE MergeFrom(_, _, _, _)
MergeFrom(paths, k, fs, acc) ==
    IF k > Len(paths) THEN [raised |-> FALSE, pages |-> acc]
    ELSE IF ~fs[paths[k]].exists THEN MergeFrom(paths, k + 1, fs, acc)
    ELSE IF ~fs[paths[k]].valid THEN [raised |-> TRUE, pages |-> <<>>]
    ELSE MergeFrom(paths, k + 1, fs, acc \o PagesOfFile(paths[k], fs))

\* merge_pdfs(pdf_paths, output_path): what is written, and what is reported
\* about skipped paths (the loop has no else branch: nothing)
MergePdfs(paths, fs) ==
    LET r == MergeFrom(paths, 1, fs, <<>>)
    IN  [raised |-> r.raised, pages |-> r.pages, diagnostics |-> <<>>]

MInit ==
    /\ mfs \in [MergePaths -> MergeFileStates]
    /\ \E add_toc \in BOOLEAN, n \in 0..MaxMergeDocs :
         \E files \in [1..n -> MergeDocFiles] :
            pdf_paths = WithTOC(add_toc, files)
    /\ mstate = "idle"
    /\ merged = <<>>
    /\ mdiag = <<>>
    /\ LabelsIdle
    /\ current_numbering_style = "letters"
    /\ AnnotateIdle
    /\ StorageIdle
    /\ ProgressIdle
    /\ OthersIdleL

CallMergePdfs ==
    /\ mstate = "idle"
    /\ LET r == MergePdfs(pdf_paths, mfs)
       IN  /\ mstate' = IF r.raised THEN "raised" ELSE "returned"
           /\ merged' = r.pages
           /\ mdiag' = mdiag \o r.diagnostics
    /\ UNCHANGED <<mfs, pdf_paths>>
    /\ UNCHANGED <<vars, cvars, lvars, current_numbering_style, avars, svars,
                   bvars, morevars>>

MNext == CallMergePdfs

SpecM == MInit /\ [][MNext]_<<vars, cvars, restvars>>

(***************************************************************************)
(* SpecA: the numbering loop with PDFHandler.add_exhibit_number in detail. *)
(* A document is its pages, a page the overlays merged onto it.  What the  *)
(* compressor answers and which step of the annotation raises, if any, is  *)
(* the environment's.                                                      *)
(***************************************************************************)
\* largest number of documents of the batch
MaxBatch == 2

\* the text of the overlay of one page
OverlayOf(exhibit_number, text) ==
    [exhibit |-> exhibit_number, page |-> text.page, of |-> text.of]

\* a plausible slip: the page number taken from enumerate as it is
PageTextZeroBased(page_num, total) == [page |-> page_num, of |-> total]

\* f"Page {page_num + 1} of {len(reader.pages)}", page_num counted from 0
PageText(page_num, total) == [page |-> page_num + 1, of |-> total]

\* a document of n pages nothing was merged onto
BlankDoc(n) == [k \in 1..n |-> <<>>]

\* the for loop over reader.pages: the overlay is merged onto every page and
\* the page added to the writer
AnnotatePages(pages, exhibit_number) ==
    [k \in 1..Len(pages) |->
        Append(pages[k], OverlayOf(exhibit_number, PageText(k - 1, Len(pages))))]

\* the documents a batch can hold: 1..MaxPages pages, fresh or carrying the
\* overlays of an earlier annotation
BatchDocs ==
    {BlankDoc(n) : n \in 1..MaxPages} \cup
    {AnnotatePages(BlankDoc(n), "A") : n \in 1..MaxPages}

\* what self.compressor.compress answers inside add_exhibit_number:
\*   off        : compression is not enabled
\*   failed     : success False; the original is worked on
\*   ok         : success; the compressed copy (same pages) is worked on
\*   unreadable : success, but PdfReader cannot read the output
\*   raised     : compress raises
CompressAnswers(enabled) ==
    IF enabled THEN {"failed", "ok", "unreadable", "raised"} ELSE {"off"}

\* the step of the annotation that raises
AnnotateFailures == {"none", "read", "overlay", "write"}

\* a plausible slip: the exception is let through
OnExceptionRaise(pages) ==
    [raised |-> TRUE, annotated |-> FALSE, pages |-> pages]

\* except Exception: return pdf_path
OnException(pages) ==
    [raised |-> FALSE, annotated |-> FALSE, pages |-> pages]

\* add_exhibit_number(pdf_path, exhibit_number): the document at the path it
\* returns
AddExhibitNumber(pages, exhibit_number, answer, failure) ==
    IF answer \in {"unreadable", "raised"} \/ failure # "none"
    THEN OnException(pages)
    ELSE [raised |-> FALSE, annotated |-> TRUE,
          pages |-> AnnotatePages(pages, exhibit_number)]

AInit ==
    /\ \E n \in 1..MaxBatch : adocs \in [1..n -> BatchDocs]
    /\ aenable \in BOOLEAN
    /\ ai = 0
    /\ anumbered = <<>>
    /\ aexhibits = <<>>
    /\ astate = "running"
    /\ LabelsIdle
    /\ current_numbering_style = "letters"
    /\ MergeIdle
    /\ StorageIdle
    /\ ProgressIdle
    /\ OthersIdleL

AnnotateFrame ==
    UNCHANGED <<vars, cvars, lvars, current_numbering_style, mvars, svars, bvars,
                morevars>>

\* one turn of the numbering loop: add_exhibit_number, then the exhibit
\* record with the page count of the original
AnnotateStep ==
    /\ astate = "running"
    /\ ai < Len(adocs)
    /\ \E answer \in CompressAnswers(aenable), failure \in AnnotateFailures :
         LET exhibit_num == ExhibitNum("letters", ai)
             r == AddExhibitNumber(adocs[ai + 1], exhibit_num, answer, failure)
         IN  IF r.raised
             THEN /\ astate' = "raised"
                  /\ UNCHANGED <<ai, anumbered, aexhibits>>
             ELSE /\ anumbered' =
                        Append(anumbered,
                               [annotated |-> r.annotated, pages |-> r.pages,
                                answer |-> answer, failure |-> failure])
                  /\ aexhibits' =
                        Append(aexhibits,
                               [number |-> exhibit_num,
                                pages |-> Len(adocs[ai + 1])])
                  /\ ai' = ai + 1
                  /\ UNCHANGED astate
    /\ UNCHANGED <<adocs, aenable>>
    /\ AnnotateFrame

\* the loop is over
AnnotateDone ==
    /\ astate = "running"
    /\ ai = Len(adocs)
    /\ astate' = "done"
    /\ UNCHANGED <<adocs, aenable, ai, anumbered, aexhibits>>
    /\ AnnotateFrame

ANext == AnnotateStep \/ AnnotateDone

SpecA == AInit /\ [][ANext]_<<vars, cvars, restvars>>

(***************************************************************************)
(* SpecS: the files of concurrent runs.  Each session runs generate_       *)
(* exhibits in a thread of its own, on one uploaded file; the threads      *)
(* share the disk of the server.  A path is a directory and a name.        *)
(***************************************************************************)
\* number of sessions running the pipeline
NumRuns == 2
\* the seconds the clock can show
MaxClock == 2

Runs == 1..NumRuns

\* tempfile.TemporaryDirectory(): a fresh directory per call
TmpDir(r) == <<"tmp_dir", r>>
\* tempfile.gettempdir(): the temp directory of the system
SystemTmp == <<"gettempdir", 0>>

UploadNames == {"a.pdf", "b.pdf"}

RunConfigs ==
    [name : UploadNames, enable_compression : BOOLEAN, add_toc : BOOLEAN]

Path(dir, name) == [dir |-> dir, name |-> name]

\* os.path.join(tmp_dir, file.name)
SavedPath(r, c) == Path(TmpDir(r), c.name)
\* path.parent / f"compressed_{path.name}"
CompressedPath(r, c) == Path(TmpDir(r), GetTempPath(c.name))
\* os.path.join(self.temp_dir, f"Exhibit_{exhibit_number}_{basename}"), the
\* first exhibit of the run; self.temp_dir is tempfile.gettempdir()
NumberedPath(r, c) == Path(SystemTmp, "Exhibit_A_" \o c.name)
\* os.path.join(tmp_dir, "TOC.pdf")
TocPath(r) == Path(TmpDir(r), TocFile)
\* os.path.join(tmp_dir, "final_package.pdf")
MergedPath(r) == Path(TmpDir(r), "final_package.pdf")
\* exhibit_package_<%Y%m%d_%H%M%S>.pdf in the temp directory of the system
FinalPath(t) == Path(SystemTmp, "exhibit_package_" \o Str(t) \o ".pdf")

\* run r writes the file of kind k at path p
Wrote(r, p, k) ==
    /\ disk' = {f \in disk : f.path # p} \cup {[path |-> p, kind |-> k, by |-> r]}
    /\ accesses' = accesses \cup {[path |-> p, run |-> r, op |-> "write", kind |-> k]}

\* the exit of `with tempfile.TemporaryDirectory() as tmp_dir`
Cleaned(r) == {f \in disk : f.path.dir # TmpDir(r)}

SInit ==
    /\ pc = [r \in Runs |-> "idle"]
    /\ rcfg \in [Runs -> RunConfigs]
    /\ disk = {}
    /\ accesses = {}
    /\ clock = 1
    /\ LabelsIdle
    /\ current_numbering_style = "letters"
    /\ MergeIdle
    /\ AnnotateIdle
    /\ ProgressIdle
    /\ OthersIdleL

StorageFrame ==
    UNCHANGED <<vars, cvars, lvars, current_numbering_style, mvars, avars, bvars,
                morevars>>

\* run r moves to position to
Goes(r, to) == pc' = [pc EXCEPT ![r] = to]

\* the button of session r: the temporary directory is created
EnterRun(r) ==
    /\ pc[r] = "idle"
    /\ Goes(r, "saving")
    /\ UNCHANGED <<rcfg, disk, accesses, clock>>
    /\ StorageFrame

\* the uploaded file is saved
SaveUpload(r) ==
    /\ pc[r] = "saving"
    /\ Wrote(r, SavedPath(r, rcfg[r]), "input")
    /\ Goes(r, IF rcfg[r].enable_compression THEN "compressing" ELSE "numbering")
    /\ UNCHANGED <<rcfg, clock>>
    /\ StorageFrame

\* compress writes its output beside its input
WriteCompressed(r) ==
    /\ pc[r] = "compressing"
    /\ Wrote(r, CompressedPath(r, rcfg[r]), "compressed")
    /\ Goes(r, "numbering")
    /\ UNCHANGED <<rcfg, clock>>
    /\ StorageFrame

\* add_exhibit_number writes the numbered copy
WriteNumbered(r) ==
    /\ pc[r] = "numbering"
    /\ Wrote(r, NumberedPath(r, rcfg[r]), "annotated")
    /\ Goes(r, IF rcfg[r].add_toc THEN "toc" ELSE "merging")
    /\ UNCHANGED <<rcfg, clock>>
    /\ StorageFrame

\* generate_table_of_contents writes the TOC
WriteTOC(r) ==
    /\ pc[r] = "toc"
    /\ Wrote(r, TocPath(r), "toc")
    /\ Goes(r, "merging")
    /\ UNCHANGED <<rcfg, clock>>
    /\ StorageFrame

\* merge_pdfs reads the numbered copy and writes final_package.pdf
MergeNumbered(r) ==
    /\ pc[r] = "merging"
    /\ LET p == MergedPath(r)
           n == NumberedPath(r, rcfg[r])
       IN  /\ disk' = {f \in disk : f.path # p} \cup
                      {[path |-> p, kind |-> "merged", by |-> r]}
           /\ accesses' = accesses \cup
                 {[path |-> n, run |-> r, op |-> "read", kind |-> "annotated"],
                  [path |-> p, run |-> r, op |-> "write", kind |-> "merged"]}
    /\ Goes(r, "copying")
    /\ UNCHANGED <<rcfg, clock>>
    /\ StorageFrame

\* shutil.copy(merged_file, final_output), the name taken from the clock
CopyToFinal(r) ==
    /\ pc[r] = "copying"
    /\ Wrote(r, FinalPath(clock), "artifact")
    /\ Goes(r, "leaving")
    /\ UNCHANGED <<rcfg, clock>>
    /\ StorageFrame

\* an exception in the run: the with block is left
RunRaises(r) ==
    /\ pc[r] \in {"saving", "compressing", "numbering", "toc", "merging", "copying"}
    /\ Goes(r, "leaving")
    /\ UNCHANGED <<rcfg, disk, accesses, clock>>
    /\ StorageFrame

\* the with block is left: the temporary directory is removed
LeaveRun(r) ==
    /\ pc[r] = "leaving"
    /\ disk' = Cleaned(r)
    /\ Goes(r, "ended")
    /\ UNCHANGED <<rcfg, accesses, clock>>
    /\ StorageFrame

\* a second passes
Tick ==
    /\ clock < MaxClock
    /\ clock' = clock + 1
    /\ UNCHANGED <<pc, rcfg, disk, accesses>>
    /\ StorageFrame

SNext ==
    \/ \E r \in Runs : EnterRun(r)
    \/ \E r \in Runs : SaveUpload(r)
    \/ \E r \in Runs : WriteCompressed(r)
    \/ \E r \in Runs : WriteNumbered(r)
    \/ \E r \in Runs : WriteTOC(r)
    \/ \E r \in Runs : MergeNumbered(r)
    \/ \E r \in Runs : CopyToFinal(r)
    \/ \E r \in Runs : RunRaises(r)
    \/ \E r \in Runs : LeaveRun(r)
    \/ Tick

SpecS == SInit /\ [][SNext]_<<vars, cvars, restvars>>

(***************************************************************************)
(* SpecB: the progress reports of the per-document loops:                  *)
(* compress_pdf_batch and ExhibitProcessor.process_exhibits, which call    *)
(* on_progress if one was given, and the compression loop of               *)
(* generate_exhibits, which moves the progress bar.                        *)
(***************************************************************************)
\* largest number of documents of a loop
MaxFiles == 3

ProgressLoops == {"compress_pdf_batch", "process_exhibits", "app_compress"}

\* the event reported in the turn of 0-based index idx
ProgressEvent(idx, total, processed) ==
    [current |-> idx + 1, total |-> total, processed |-> processed]

BInit ==
    /\ bloop \in ProgressLoops
    /\ btotal \in 0..MaxFiles
    /\ bcallback \in (IF bloop = "app_compress" THEN {TRUE} ELSE BOOLEAN)
    /\ bi = 0
    /\ bphase = "top"
    /\ bprocessed = 0
    /\ bevents = <<>>
    /\ LabelsIdle
    /\ current_numbering_style = "letters"
    /\ MergeIdle
    /\ AnnotateIdle
    /\ StorageIdle
    /\ OthersIdleL

ProgressFrame ==
    UNCHANGED <<vars, cvars, lvars, current_numbering_style, mvars, avars, svars,
                morevars>>

\* compress_pdf_batch, process_exhibits: `if on_progress: on_progress(...)`
\* at the top of the turn
ReportBefore ==
    /\ bloop \in {"compress_pdf_batch", "process_exhibits"}
    /\ bphase = "top"
    /\ bi < btotal
    /\ bevents' = IF bcallback
                  THEN Append(bevents, ProgressEvent(bi, btotal, bprocessed))
                  ELSE bevents
    /\ bphase' = "body"
    /\ UNCHANGED <<bloop, btotal, bcallback, bi, bprocessed>>
    /\ ProgressFrame

\* the operation on the document of the turn: compressor.compress and
\* results.append; GeneratedExhibit and generated_exhibits.append
ProcessDocument ==
    /\ \/ bloop \in {"compress_pdf_batch", "process_exhibits"} /\ bphase = "body"
       \/ bloop = "app_compress" /\ bphase = "top" /\ bi < btotal
    /\ bprocessed' = bprocessed + 1
    /\ IF bloop = "app_compress"
       THEN bphase' = "after" /\ UNCHANGED bi
       ELSE bphase' = "top" /\ bi' = bi + 1
    /\ UNCHANGED <<bloop, btotal, bcallback, bevents>>
    /\ ProgressFrame

\* generate_exhibits: the file of the turn is not found; st.warning, continue
SkipMissing ==
    /\ bloop = "app_compress"
    /\ bphase = "top"
    /\ bi < btotal
    /\ bi' = bi + 1
    /\ UNCHANGED <<bloop, btotal, bcallback, bphase, bprocessed, bevents>>
    /\ ProgressFrame

\* generate_exhibits: progress_bar.progress((i + 1) / len(file_paths)) at the
\* end of the turn
ReportAfter ==
    /\ bloop = "app_compress"
    /\ bphase = "after"
    /\ bevents' = Append(bevents, ProgressEvent(bi, btotal, bprocessed))
    /\ bi' = bi + 1
    /\ bphase' = "top"
    /\ UNCHANGED <<bloop, btotal, bcallback, bprocessed>>
    /\ ProgressFrame

\* the loop is over
LoopEnd ==
    /\ bphase = "top"
    /\ bi = btotal
    /\ bphase' = "done"
    /\ UNCHANGED <<bloop, btotal, bcallback, bi, bprocessed, bevents>>
    /\ ProgressFrame

BNext == ReportBefore \/ ProcessDocument \/ SkipMissing \/ ReportAfter \/ LoopEnd

SpecB == BInit /\ [][BNext]_<<vars, cvars, restvars>>

(***************************************************************************)
(* SpecI: the calls one run of generate_exhibits makes to the components:  *)
(* USCISPDFCompressor.compress, the overlay of add_exhibit_number,         *)
(* generate_table_of_contents and merge_pdfs.  The run starts with its     *)
(* documents saved.                                                        *)
(***************************************************************************)
\* largest number of documents of a recorded run
MaxCallDocs == 3

\* the options of a run; available is COMPRESSION_AVAILABLE
CallConfigs ==
    [ndocs : 1..MaxCallDocs,
     enable_compression : BOOLEAN,
     available : BOOLEAN,
     add_toc : BOOLEAN,
     merge_pdfs : BOOLEAN]

\* PDFHandler.__init__: self.enable_compression, and self.compressor is set
HandlerCompresses(c) == c.enable_compression /\ c.available

\* a call to a component for the document at 1-based position doc (0: the
\* call is for the whole package)
Call(component, doc) == [component |-> component, doc |-> doc]

\* the components modelled before this one are not running
EarlierIdle ==
    /\ SessionInit
    /\ CompressorIdle
    /\ quality_preset = "high"
    /\ smallpdf_api_key = NULL
    /\ LabelsIdle
    /\ current_numbering_style = "letters"
    /\ MergeIdle
    /\ AnnotateIdle
    /\ StorageIdle
    /\ ProgressIdle

EarlierFrame ==
    UNCHANGED <<vars, cvars, lvars, current_numbering_style, mvars, avars, svars,
                bvars>>

IInit ==
    /\ icfg \in CallConfigs
    /\ iphase = IF icfg.enable_compression THEN "compress" ELSE "number"
    /\ ipos = 0
    /\ invocations = <<>>
    /\ EarlierIdle
    /\ BatchIdle
    /\ TocIdle
    /\ DownloadsIdle
    /\ ResultsTabIdle
    /\ ProcessorIdle
    /\ ToRomanIdle

InvocationsFrame ==
    /\ EarlierFrame
    /\ UNCHANGED <<zvars, tvars, dvars, rvars, pvars, nvars>>

\* the compression loop, one turn: a file that is not found is skipped;
\* compress is called if the handler has a compressor
CompressionTurn ==
    /\ iphase = "compress"
    /\ ipos < icfg.ndocs
    /\ \E exists \in BOOLEAN :
         invocations' =
             IF exists /\ HandlerCompresses(icfg)
             THEN Append(invocations, Call("compress", ipos + 1))
             ELSE invocations
    /\ ipos' = ipos + 1
    /\ UNCHANGED <<icfg, iphase>>
    /\ InvocationsFrame

CompressionLoopEnd ==
    /\ iphase = "compress"
    /\ ipos = icfg.ndocs
    /\ iphase' = "number"
    /\ ipos' = 0
    /\ UNCHANGED <<icfg, invocations>>
    /\ InvocationsFrame

\* the calls add_exhibit_number makes for the document at position doc:
\* compress "if self.enable_compression and self.compressor", then the
\* overlay of the pages
AddExhibitNumberCalls(c, doc) ==
    (IF HandlerCompresses(c) THEN <<Call("compress", doc)>> ELSE <<>>)
        \o <<Call("annotate", doc)>>

\* the numbering loop, one turn: add_exhibit_number(file_path, exhibit_num)
NumberingTurn ==
    /\ iphase = "number"
    /\ ipos < icfg.ndocs
    /\ invocations' = invocations \o AddExhibitNumberCalls(icfg, ipos + 1)
    /\ ipos' = ipos + 1
    /\ UNCHANGED <<icfg, iphase>>
    /\ InvocationsFrame

NumberingLoopEnd ==
    /\ iphase = "number"
    /\ ipos = icfg.ndocs
    /\ iphase' = IF icfg.add_toc THEN "toc"
                 ELSE IF icfg.merge_pdfs THEN "merge" ELSE "done"
    /\ ipos' = 0
    /\ UNCHANGED <<icfg, invocations>>
    /\ InvocationsFrame

\* `if add_toc:` generate_table_of_contents is called; it returns, or it
\* raises and the run ends
TocCall ==
    /\ iphase = "toc"
    /\ invocations' = Append(invocations, Call("toc", 0))
    /\ \E raised \in BOOLEAN :
         iphase' = IF raised THEN "failed"
                   ELSE IF icfg.merge_pdfs THEN "merge" ELSE "done"
    /\ UNCHANGED <<icfg, ipos>>
    /\ InvocationsFrame

\* `if merge_pdfs:` merge_pdfs is called unless a numbered file is missing
MergeCall ==
    /\ iphase = "merge"
    /\ \E missing \in BOOLEAN :
         invocations' = IF missing THEN invocations
                        ELSE Append(invocations, Call("merge", 0))
    /\ iphase' = "done"
    /\ UNCHANGED <<icfg, ipos>>
    /\ InvocationsFrame

INext ==
    \/ CompressionTurn
    \/ CompressionLoopEnd
    \/ NumberingTurn
    \/ NumberingLoopEnd
    \/ TocCall
    \/ MergeCall

SpecI == IInit /\ [][INext]_<<vars, cvars, restvars>>

(***************************************************************************)
(* SpecZ: the compression phase of a run on documents of any byte size,    *)
(* the zero-byte document included, and the statistics computed from the   *)
(* results.  The documents exist when the phase starts.                    *)
(***************************************************************************)
\* largest number of documents of the batch
MaxBatchDocs == 2

\* the saved documents: the zero-byte file and the valid PDFs of SpecC
BatchFiles == {f \in InputFiles : f.exists /\ (f.size = 0 \/ f.valid)}

\* what the tools do on a document of the batch: outputs of at most 1 byte
BatchEnvs ==
    {e \in ToolEnvs : \A m \in MethodNames : e[m].size <= 1}

\* a strategy gets to `(1 - compressed_size / original_size) * 100` with an
\* original_size of 0: the first strategy whose tool leaves an output
DividesByZero(file, env, api_key) ==
    /\ file.size = 0
    /\ \/ env["ghostscript"].kind = "wrote"
       \/ Truthy(api_key) /\ env["smallpdf"].kind = "wrote"

ZInit ==
    /\ zfiles \in UNION {[1..n -> BatchFiles] : n \in 1..MaxBatchDocs}
    /\ zkey \in ApiKeys
    /\ zi = 0
    /\ zresults = <<>>
    /\ ztotal_original = 0
    /\ ztotal_compressed = 0
    /\ zavg = NoAverage
    /\ zdivided = {}
    /\ zstate = "compressing"
    /\ EarlierIdle
    /\ InvocationsIdle
    /\ TocIdle
    /\ DownloadsIdle
    /\ ResultsTabIdle
    /\ ProcessorIdle
    /\ ToRomanIdle

BatchFrame ==
    /\ EarlierFrame
    /\ UNCHANGED <<ivars, tvars, dvars, rvars, pvars, nvars>>

\* the compression loop, one turn: compress(file_path), the result kept and
\* added to the totals only if it has success; an exception leaving compress
\* leaves the loop
BatchCompressTurn ==
    /\ zstate = "compressing"
    /\ zi < Len(zfiles)
    /\ \E env \in BatchEnvs :
         LET fs == (InputPath :> zfiles[zi + 1]) @@ (GetTempPath(InputPath) :> NoFile)
             r == Compress(InputPath, fs, env, zkey, "high")
         IN  /\ zdivided' = IF DividesByZero(zfiles[zi + 1], env, zkey)
                            THEN zdivided \cup {zi + 1} ELSE zdivided
             /\ IF r.raised
                THEN /\ zstate' = "raised"
                     /\ UNCHANGED <<zi, zresults, ztotal_original, ztotal_compressed>>
                ELSE /\ zi' = zi + 1
                     /\ UNCHANGED zstate
                     /\ IF r.result.success
                        THEN /\ zresults' = Append(zresults, r.result)
                             /\ ztotal_original' =
                                   ztotal_original + r.result.original_size
                             /\ ztotal_compressed' =
                                   ztotal_compressed + r.result.compressed_size
                        ELSE UNCHANGED <<zresults, ztotal_original, ztotal_compressed>>
    /\ UNCHANGED <<zfiles, zkey, zavg>>
    /\ BatchFrame

\* `if compression_results:` the average reduction is computed
BatchStatistics ==
    /\ zstate = "compressing"
    /\ zi = Len(zfiles)
    /\ zavg' = IF zresults # <<>>
               THEN [computed |-> TRUE,
                     value |-> AvgReduction(ztotal_original, ztotal_compressed)]
               ELSE zavg
    /\ zstate' = "done"
    /\ UNCHANGED <<zfiles, zkey, zi, zresults, ztotal_original,
                   ztotal_compressed, zdivided>>
    /\ BatchFrame

ZNext == BatchCompressTurn \/ BatchStatistics

SpecZ == ZInit /\ [][ZNext]_<<vars, cvars, restvars>>

(***************************************************************************)
(* SpecT: the tables of contents: generate_table_of_contents, which the    *)
(* pipelines call, and generate_toc.  A text is a sequence of characters.  *)
(***************************************************************************)
\* largest number of exhibit records handed to a TOC function
MaxTocExhibits == 2

\* exhibit['title'][:50]
TitleBudget == 50
\* exhibit['name'][:60] + "..."
NameBudget == 60

TocFunctions == {"generate_table_of_contents", "generate_toc"}

\* s[:n]
Take(s, n) == SubSeq(s, 1, IF n < Len(s) THEN n ELSE Len(s))

\* the text of Python's str, one character per element
Chars(n, c) == [k \in 1..n |-> c]

\* titles and names: short ones, and ones just over each budget
Texts ==
    {Chars(n, c) : n \in {2, TitleBudget + 1, NameBudget + 1}, c \in {"x", "y"}}

\* exhibit.get('pages', '-'): the key may be missing
PageEntries == {[has |-> FALSE, n |-> 0], [has |-> TRUE, n |-> 3]}

\* the records a function reads: number, title or name (text), pages, and
\* whether 'path' or 'pdf_path' is set
TocRecords(func) ==
    IF func = "generate_table_of_contents"
    THEN [text : Texts, pages : PageEntries, has_path : {FALSE}]
    ELSE [text : Texts, pages : {[has |-> FALSE, n |-> 0]}, has_path : BOOLEAN]

\* a list of records, numbered by position
Numbered(recs) ==
    [k \in 1..Len(recs) |->
        [number |-> ExhibitNum("letters", k - 1),
         text |-> recs[k].text,
         pages |-> recs[k].pages,
         has_path |-> recs[k].has_path]]

TocLists(func) ==
    {Numbered(recs) :
        recs \in UNION {[1..n -> TocRecords(func)] : n \in 0..MaxTocExhibits}}

\* a row of generate_table_of_contents:
\*   [f"Exhibit {exhibit['number']}", exhibit['title'][:50], str(exhibit.get('pages', '-'))]
TableRow(exhibit) ==
    [exhibit |-> "Exhibit " \o exhibit.number,
     text |-> Take(exhibit.text, TitleBudget),
     last |-> IF exhibit.pages.has THEN Str(exhibit.pages.n) ELSE "-"]

\* a row of generate_toc:
\*   [f"Exhibit {exhibit['number']}", name[:60] + "..." if len(name) > 60 else name, status]
TocRow(exhibit) ==
    [exhibit |-> "Exhibit " \o exhibit.number,
     text |-> IF Len(exhibit.text) > NameBudget
              THEN Take(exhibit.text, NameBudget) \o <<".", ".", ".">>
              ELSE exhibit.text,
     last |-> IF exhibit.has_path THEN "Generated" ELSE "Failed"]

RowOf(func, exhibit) ==
    IF func = "generate_table_of_contents" THEN TableRow(exhibit) ELSE TocRow(exhibit)

\* a plausible slip: the rows appended at the front of the table
RowsReversed(func, list) ==
    [k \in 1..Len(list) |-> RowOf(func, list[Len(list) + 1 - k])]

\* `for exhibit in exhibit_list: table_data.append([...])`, after the header
Rows(func, list) ==
    [k \in 1..Len(list) |-> RowOf(func, list[k])]

TInit ==
    /\ tfunc \in TocFunctions
    /\ tgiven \in TocLists(tfunc)
    /\ texhibits = tgiven
    /\ trows = <<>>
    /\ tstate = "idle"
    /\ EarlierIdle
    /\ InvocationsIdle
    /\ BatchIdle
    /\ DownloadsIdle
    /\ ResultsTabIdle
    /\ ProcessorIdle
    /\ ToRomanIdle

TocFrame ==
    /\ EarlierFrame
    /\ UNCHANGED <<ivars, zvars, dvars, rvars, pvars, nvars>>

\* one call of the function: the table is built from the records, which are
\* only read; doc.build writes the PDF or raises
CallToc ==
    /\ tstate = "idle"
    /\ \E built \in BOOLEAN :
         IF built
         THEN /\ trows' = Rows(tfunc, texhibits)
              /\ tstate' = "returned"
         ELSE /\ trows' = <<>>
              /\ tstate' = "raised"
    /\ UNCHANGED <<tfunc, tgiven, texhibits>>
    /\ TocFrame

TNext == CallToc

SpecT == TInit /\ [][TNext]_<<vars, cvars, restvars>>

(***************************************************************************)
(* SpecD: the download loops of generate_exhibits_from_urls and            *)
(* generate_exhibits_from_drive, which save every source in the run's      *)
(* tmp_dir under a name derived from the source.                           *)
(***************************************************************************)
\* largest number of sources of a download loop
MaxDownloads == 2

\* a URL: the host, the last segment of its path as stem and extension (both
\* empty when the path ends with "/"), and the file ID of a Google Drive
\* /file/d/<id>/ link (NULL otherwise)
Url(host, stem, ext, file_id) ==
    [host |-> host, stem |-> stem, ext |-> ext, file_id |-> file_id]

Urls ==
    {Url("a.org", "report", ".pdf", NULL),
     Url("b.org", "report", ".pdf", NULL),
     Url("a.org", "report", "", NULL),
     Url("a.org", "paper", ".PDF", NULL),
     Url("a.org", "", "", NULL),
     Url("drive.google.com", "view", "", "id1"),
     Url("drive.google.com", "view", "", "id2"),
     Url("drive.google.com", "", "", "id1")}

\* filename.lower().endswith('.pdf')
EndsWithPdf(url) == url.ext \in {".pdf", ".PDF"}

\* get_filename_from_url
GetFilenameFromUrl(url) ==
    IF url.stem = "" /\ url.ext = ""
    THEN IF url.host = "drive.google.com" /\ url.file_id # NULL
         THEN "drive_file_" \o url.file_id \o ".pdf"
         ELSE "downloaded_file.pdf"
    ELSE IF EndsWithPdf(url)
         THEN url.stem \o url.ext
         ELSE url.stem \o url.ext \o ".pdf"

\* the files of a Drive folder: file_info['id'], file_info['name']
DriveFiles ==
    {[id |-> "id1", name |-> "report.pdf"],
     [id |-> "id2", name |-> "report.pdf"],
     [id |-> "id3", name |-> "letter.pdf"]}

DownloadSources(variant) == IF variant = "urls" THEN Urls ELSE DriveFiles

\* the name a source is saved under in tmp_dir
SavedName(variant, source) ==
    IF variant = "urls" THEN GetFilenameFromUrl(source) ELSE source.name

\* the file at path p now holds the content of the source at position k
Saved(files, p, k) ==
    {f \in files : f.path # p} \cup {[path |-> p, source |-> k]}

DInit ==
    /\ dvariant \in {"urls", "drive"}
    /\ dsources \in UNION {[1..n -> DownloadSources(dvariant)] : n \in 1..MaxDownloads}
    /\ \A a, b \in 1..Len(dsources) : a # b => dsources[a] # dsources[b]
    /\ di = 0
    /\ dpaths = <<>>
    /\ dorigin = <<>>
    /\ ddisk = {}
    /\ dwarnings = 0
    /\ EarlierIdle
    /\ InvocationsIdle
    /\ BatchIdle
    /\ TocIdle
    /\ ResultsTabIdle
    /\ ProcessorIdle
    /\ ToRomanIdle

DownloadsFrame ==
    /\ EarlierFrame
    /\ UNCHANGED <<ivars, zvars, tvars, rvars, pvars, nvars>>

\* generate_exhibits_from_urls, one turn of the loop.  download_pdf_from_url
\* answers
\*   refused : False before the file is opened (not a PDF, a request error)
\*   invalid : the file was written and is empty or not a PDF: False
\*   saved   : the file was written and is a PDF: True
DownloadUrl ==
    /\ dvariant = "urls"
    /\ di < Len(dsources)
    /\ LET file_path == Path("tmp_dir", GetFilenameFromUrl(dsources[di + 1]))
       IN  \E answer \in {"refused", "invalid", "saved"} :
             /\ ddisk' = IF answer = "refused" THEN ddisk
                         ELSE Saved(ddisk, file_path, di + 1)
             /\ IF answer = "saved"
                THEN /\ dpaths' = Append(dpaths, file_path)
                     /\ dorigin' = Append(dorigin, di + 1)
                     /\ UNCHANGED dwarnings
                ELSE /\ dwarnings' = dwarnings + 1
                     /\ UNCHANGED <<dpaths, dorigin>>
    /\ di' = di + 1
    /\ UNCHANGED <<dvariant, dsources>>
    /\ DownloadsFrame

\* generate_exhibits_from_drive, one turn of the loop: download_file raises,
\* or the file is moved to os.path.join(tmp_dir, basename)
DownloadDriveFile ==
    /\ dvariant = "drive"
    /\ di < Len(dsources)
    /\ LET new_path == Path("tmp_dir", dsources[di + 1].name)
       IN  \E raised \in BOOLEAN :
             IF raised
             THEN /\ dwarnings' = dwarnings + 1
                  /\ UNCHANGED <<dpaths, dorigin, ddisk>>
             ELSE /\ ddisk' = Saved(ddisk, new_path, di + 1)
                  /\ dpaths' = Append(dpaths, new_path)
                  /\ dorigin' = Append(dorigin, di + 1)
                  /\ UNCHANGED dwarnings
    /\ di' = di + 1
    /\ UNCHANGED <<dvariant, dsources>>
    /\ DownloadsFrame

DNext == DownloadUrl \/ DownloadDriveFile

SpecD == DInit /\ [][DNext]_<<vars, cvars, restvars>>

(***************************************************************************)
(* SpecP: ExhibitProcessor: the add calls, clear_exhibits and              *)
(* process_exhibits, in any order.                                         *)
(***************************************************************************)
\* largest number of exhibits added to the processor
MaxAdds == 3

\* the file paths handed to add_exhibit_from_file, with os.path.basename
FilePaths == {"docs/a.pdf", "b.pdf"}
Basename == ("docs/a.pdf" :> "a.pdf") @@ ("b.pdf" :> "b.pdf")

\* the URLs handed to add_exhibit_from_url, with url.split('/')[-1]
PageUrls == {"https://a.org/report.pdf", "https://a.org/docs/"}
LastSegment == ("https://a.org/report.pdf" :> "report.pdf") @@ ("https://a.org/docs/" :> "")

\* the titles handed to the add calls; "" is the default
GivenTitles == {"", "Title"}

\* ExhibitSource(file_path=file_path, title=title)
SourceFromFile(file_path, title) ==
    [url |-> NULL,
     title |-> IF title = "" THEN Basename[file_path] ELSE title,
     archive_url |-> NULL,
     file_path |-> file_path]

\* ExhibitSource(url=url, title=title)
SourceFromUrl(url, title) ==
    [url |-> url,
     title |-> IF title # "" THEN title
               ELSE IF LastSegment[url] # "" THEN LastSegment[url] ELSE "webpage",
     archive_url |-> NULL,
     file_path |-> NULL]

\* a plausible slip: the new exhibit put at the front of the list
AddedFirst(list, source) == <<source>> \o list

\* self.exhibits.append(exhibit)
Added(list, source) == Append(list, source)

\* get_exhibit_count
GetExhibitCount(list) == Len(list)

\* the GeneratedExhibit of the source at 0-based position idx; failed: the
\* try block raised and the except clause built the record
Generated(idx, source, failed) ==
    [exhibit_letter |-> CHR65[idx + 1],
     original_url |-> source.url,
     archive_url |-> source.archive_url,
     pdf_path |-> IF failed THEN NULL ELSE source.file_path,
     title |-> source.title,
     success |-> ~failed]

\* process_exhibits: the ExhibitPackage, when the try block raises for the
\* exhibits at the positions of failing
ProcessExhibits(list, failing) ==
    LET generated_exhibits ==
            [k \in 1..Len(list) |-> Generated(k - 1, list[k], k \in failing)]
    IN  [state |-> "returned",
         exhibits |-> generated_exhibits,
         total_exhibits |-> Len(generated_exhibits),
         successful_exhibits |->
             Cardinality({k \in 1..Len(generated_exhibits) :
                             generated_exhibits[k].success}),
         failed_exhibits |->
             Cardinality({k \in 1..Len(generated_exhibits) :
                             ~generated_exhibits[k].success})]

PInit ==
    /\ ProcessorIdle
    /\ EarlierIdle
    /\ InvocationsIdle
    /\ BatchIdle
    /\ TocIdle
    /\ DownloadsIdle
    /\ ResultsTabIdle
    /\ ToRomanIdle

ProcessorFrame ==
    /\ EarlierFrame
    /\ UNCHANGED <<ivars, zvars, tvars, dvars, rvars, nvars>>

AddExhibitFromFile ==
    /\ Len(pexhibits) < MaxAdds
    /\ \E file_path \in FilePaths, title \in GivenTitles :
         /\ pexhibits' = Added(pexhibits, SourceFromFile(file_path, title))
         /\ padded' = Append(padded, SourceFromFile(file_path, title))
    /\ ppackage' = NoPackage
    /\ UNCHANGED pcleared
    /\ ProcessorFrame

AddExhibitFromUrl ==
    /\ Len(pexhibits) < MaxAdds
    /\ \E url \in PageUrls, title \in GivenTitles :
         /\ pexhibits' = Added(pexhibits, SourceFromUrl(url, title))
         /\ padded' = Append(padded, SourceFromUrl(url, title))
    /\ ppackage' = NoPackage
    /\ UNCHANGED pcleared
    /\ ProcessorFrame

ClearExhibits ==
    /\ pexhibits' = <<>>
    /\ padded' = <<>>
    /\ pcleared' = TRUE
    /\ ppackage' = NoPackage
    /\ ProcessorFrame

\* process_exhibits(case_id, on_progress): the callback, if one is given,
\* may raise, and the exception leaves the function; otherwise the package
\* is returned
CallProcessExhibits ==
    /\ \E callback \in {"none", "returns", "raises"} :
         IF callback = "raises" /\ pexhibits # <<>>
         THEN ppackage' = [NoPackage EXCEPT !.state = "raised"]
         ELSE \E failing \in SUBSET (1..Len(pexhibits)) :
                 ppackage' = ProcessExhibits(pexhibits, failing)
    /\ UNCHANGED <<pexhibits, padded, pcleared>>
    /\ ProcessorFrame

PNext ==
    \/ AddExhibitFromFile
    \/ AddExhibitFromUrl
    \/ ClearExhibits
    \/ CallProcessExhibits

SpecP == PInit /\ [][PNext]_<<vars, cvars, restvars>>

(***************************************************************************)
(* SpecN: one call of to_roman, statement by statement.                    *)
(***************************************************************************)
\* largest argument of to_roman
MaxRoman == 4010

\* def to_roman(num): roman_num = ''; i = 0
NInit ==
    /\ narg \in 1..MaxRoman
    /\ nnum = narg
    /\ ni = 0
    /\ nroman_num = ""
    /\ nleft = 0
    /\ npc = "while"
    /\ EarlierIdle
    /\ InvocationsIdle
    /\ BatchIdle
    /\ TocIdle
    /\ DownloadsIdle
    /\ ResultsTabIdle
    /\ ProcessorIdle

ToRomanFrame ==
    /\ EarlierFrame
    /\ UNCHANGED <<ivars, zvars, tvars, dvars, rvars, pvars>>

\* while num > 0: ... for _ in range(num // val[i]); val[i] raises
\* IndexError when i is past the table; return roman_num when num is 0
WhileTest ==
    /\ npc = "while"
    /\ IF nnum > 0
       THEN IF ni >= Len(RomanVal)
            THEN /\ npc' = "IndexError"
                 /\ UNCHANGED nleft
            ELSE /\ npc' = "for"
                 /\ nleft' = nnum \div RomanVal[ni + 1]
       ELSE /\ npc' = "done"
            /\ UNCHANGED nleft
    /\ UNCHANGED <<narg, nnum, ni, nroman_num>>
    /\ ToRomanFrame

\* roman_num += syms[i]; num -= val[i]
ForTurn ==
    /\ npc = "for"
    /\ nleft > 0
    /\ nroman_num' = nroman_num \o RomanSyms[ni + 1]
    /\ nnum' = nnum - RomanVal[ni + 1]
    /\ nleft' = nleft - 1
    /\ UNCHANGED <<narg, ni, npc>>
    /\ ToRomanFrame

\* the for loop is exhausted: i += 1
ForEnd ==
    /\ npc = "for"
    /\ nleft = 0
    /\ ni' = ni + 1
    /\ npc' = "while"
    /\ UNCHANGED <<narg, nnum, nroman_num, nleft>>
    /\ ToRomanFrame

NNext ==
    \/ WhileTest
    \/ ForTurn
    \/ ForEnd

SpecN == NInit /\ [][NNext]_<<vars, cvars, restvars>>

(***************************************************************************)
(* Properties of the compression engine (checked under SpecC).             *)
(***************************************************************************)
StrategyOrder == <<"ghostscript", "pymupdf", "smallpdf">>

\* the methods of the "attempting" lines of a log, in order
RECURSIVE Attempted(_)
Attempted(log) ==
    IF log = <<>> THEN <<>>
    ELSE IF Head(log).line = "attempting"
         THEN <<Head(log).method>> \o Attempted(Tail(log))
         ELSE Attempted(Tail(log))

IsPrefix(s, t) == Len(s) <= Len(t) /\ s = SubSeq(t, 1, Len(s))

Succeeded(log) == \E j \in 1..Len(log) : log[j].line = "successful"

Called == cstate # "idle"

\* C1: the strategies a call of compress attempts are a prefix of
\* [ghostscript, pymupdf, smallpdf], in that order and each at most once;
\* nothing is attempted after a strategy reported success, the prefix stops
\* short of the whole list only at a success, and smallpdf is attempted only
\* if an API key was given to the compressor.
C1_StrategyOrder ==
    Called =>
        /\ IsPrefix(Attempted(clog), StrategyOrder)
        /\ \A j \in 1..Len(clog) :
              clog[j].line = "successful" =>
                  /\ j = Len(clog)
                  /\ clog[j].method = Attempted(clog)[Len(Attempted(clog))]
        /\ ~Succeeded(clog) =>
              Len(Attempted(clog)) = IF Truthy(smallpdf_api_key) THEN 3 ELSE 2
        /\ (\E j \in 1..Len(clog) :
               clog[j].line = "attempting" /\ clog[j].method = "smallpdf")
              => Truthy(smallpdf_api_key)

\* C1 witness: with a key given, Ghostscript failed, PyMuPDF succeeded and
\* SmallPDF was not attempted.
C1_Witness ==
    /\ cstate = "returned"
    /\ Truthy(smallpdf_api_key)
    /\ Attempted(clog) = <<"ghostscript", "pymupdf">>
    /\ cresult.success
    /\ cresult.method = "pymupdf"

\* the pass-through result of the claim C2
PassThrough ==
    /\ cstate = "returned"
    /\ cresult.success = FALSE
    /\ cresult.method = "none"
    /\ cresult.output_path = InputPath
    /\ cresult.compressed_size = cresult.original_size
    /\ cresult.reduction_percent = 0

\* C2 as stated: whenever every attempted strategy failed, compress returns
\* (it does not raise) the pass-through result: success false, method none,
\* output path = input path, compressed size = original size, reduction 0.
C2_AllFailedReturns ==
    (Called /\ ~Succeeded(clog)) => PassThrough

\* what compress does when every strategy failed: with a file at the input
\* path it returns the pass-through result, the sizes being that file's
\* size; with no file there it raises.
C2_AllFailedReturnsIfInputExists ==
    (Called /\ ~Succeeded(clog)) =>
        IF cinput.exists
        THEN PassThrough /\ cresult.original_size = cinput.size
        ELSE cstate = "raised"

\* C2 witness: all strategies failed on a valid non-empty document, with a
\* key given, so three strategies were attempted.
C2_Witness ==
    /\ cstate = "returned"
    /\ ~cresult.success
    /\ cinput.exists /\ cinput.valid /\ cinput.size > 0
    /\ Len(Attempted(clog)) = 3

\* C3 as stated: on a valid non-empty document, for every quality preset,
\* compress either succeeds with compressed_size <= original_size or fails
\* with the unchanged input as its output.
C3_SizeNeverIncreases ==
    (Called /\ cinput.exists /\ cinput.valid /\ cinput.size > 0) =>
        /\ cstate = "returned"
        /\ \/ /\ cresult.success
              /\ cresult.compressed_size <= cresult.original_size
           \/ /\ ~cresult.success
              /\ cresult.output_path = InputPath
              /\ cfs[InputPath] = cinput

\* the tool outcomes the specification counts as a failed strategy
ToolFailed(tool, after) ==
    \/ tool.kind \in {"absent", "error"}
    \/ ~after.exists
    \/ after.size = 0
    \/ ~after.valid

\* C4 as stated: a strategy whose tool is absent, raises, or leaves an
\* unreadable or zero-length output is treated as failed; so a result with
\* success = true never names such a strategy, and its output document is
\* never zero-length.
C4_FailedStrategyFallsBack ==
    (cstate = "returned" /\ cresult.success) =>
        /\ ~ToolFailed(cenv[cresult.method], cfs[cresult.output_path])
        /\ cfs[cresult.output_path].size > 0

\* C5: in a result with success = true, reduction_percent is
\* (1 - compressed_size/original_size) * 100 rounded to two decimals
\* (within half a hundredth of the exact value), original_size is the byte
\* size of the input file and compressed_size that of the output file.
C5_ReductionFromSizes ==
    (cstate = "returned" /\ cresult.success) =>
        LET o == cresult.original_size
            c == cresult.compressed_size
            exact == (o - c) * 10000
            d == cresult.reduction_percent * o - exact
        IN  /\ o > 0
            /\ 2 * d <= o /\ 2 * (0 - d) <= o
            /\ o = cinput.size
            /\ o = cfs[InputPath].size
            /\ cfs[cresult.output_path].exists
            /\ c = cfs[cresult.output_path].size

\* C5 witness: a success whose reduction is not a whole percent
\* (3 bytes to 2 bytes: 33.33 %).
C5_Witness ==
    /\ cstate = "returned"
    /\ cresult.success
    /\ cresult.original_size = 3
    /\ cresult.compressed_size = 2
    /\ cresult.reduction_percent = 3333

(***************************************************************************)
(* Properties of the pipeline.                                             *)
(***************************************************************************)
StageRank(st) == CHOOSE k \in 1..Len(Stages) : Stages[k] = st

\* the stages a run with arguments c goes through
StageEnabled(st, c) ==
    CASE st = "Compressing" -> c.enable_compression
      [] st = "GeneratingTOC" -> c.add_toc
      [] st = "Merging" -> c.merge_pdfs
      [] OTHER -> st \in {"Ingesting", "Numbering", "Complete"}

\* the stage went through every document it was given
ProcessedAll ==
    CASE stage = "Ingesting" -> Len(file_paths) + warnings = Len(sources)
      [] stage = "Compressing" -> Len(compress_returns) = Len(file_paths)
      [] stage = "Numbering" -> /\ Len(exhibits) = Len(file_paths)
                                /\ Len(numbered_files) = Len(file_paths)
      [] OTHER -> TRUE

\* the sources that materialize, in their order
OkIndexes(s) ==
    LET F[k \in 0..Len(s)] ==
            IF k = 0 THEN <<>>
            ELSE IF s[k].ok THEN Append(F[k - 1], k) ELSE F[k - 1]
    IN  F[Len(s)]

\* C6: within a run the stage only ever changes to Failed or to the next
\* stage the options of the run enable, in the order Ingesting, Compressing,
\* Numbering, GeneratingTOC, Merging, Complete; it never goes back; a stage
\* is left for the next one only when it has gone through every document;
\* Complete and Failed are never left, and exhibits_generated is set exactly
\* on reaching Complete.
C6_StageOrder ==
    [][ /\ stage' # stage =>
            /\ stage \notin {"Complete", "Failed"}
            /\ \/ stage' = "Failed"
               \/ /\ StageRank(stage') > StageRank(stage)
                  /\ StageEnabled(stage', cfg')
                  /\ \A k \in (StageRank(stage) + 1)..(StageRank(stage') - 1) :
                        ~StageEnabled(Stages[k], cfg')
                  /\ ProcessedAll
        /\ exhibits_generated' = (stage' = "Complete")
      ]_<<vars, cvars>>

\* a run with every optional stage enabled went through two documents and
\* completed
C6_Witness ==
    /\ stage = "Complete"
    /\ cfg.enable_compression /\ cfg.add_toc /\ cfg.merge_pdfs
    /\ Len(file_paths) = 2
    /\ Len(compress_returns) = 2
    /\ Len(exhibit_list) = 2
    /\ exhibits_generated

\* C7: a run fails at ingestion only if none of its sources materializes;
\* a completed run has one exhibit record per source that materializes, in
\* the order of the sources.
C7_FailedSourcesDropped ==
    /\ (stage = "Failed" /\ failed_in = "Ingesting") =>
            \A k \in 1..Len(sources) : ~sources[k].ok
    /\ stage = "Complete" =>
            /\ Len(exhibit_list) = Len(OkIndexes(sources))
            /\ \A k \in 1..Len(exhibit_list) :
                    exhibit_list[k].title = DocNames[OkIndexes(sources)[k]]

\* every document of the run came back from compress with method 'none'
AllCompressionFailed ==
    /\ cfg.enable_compression
    /\ Len(compress_returns) = Len(file_paths)
    /\ \A k \in 1..Len(compress_returns) : compress_returns[k] = "none"

\* C8: when compression is enabled and compress fails on every document,
\* the run is not failed by the compression stage, and once it is complete
\* the manifest records method 'none' for every exhibit and the statistics
\* with an average reduction of 0.
C8_AllFailedStillRecorded ==
    AllCompressionFailed =>
        /\ stage = "Failed" => failed_in # "Compressing"
        /\ stage = "Complete" =>
              /\ compression_stats.set
              /\ compression_stats.avg_reduction = 0
              /\ \A k \in 1..Len(exhibit_list) :
                    exhibit_list[k].compression.method = "none"

\* C9: a run that is left with no document, or whose merge block did not
\* produce or did not save the merged output, is Failed, and a failed run
\* does not set exhibits_generated.
C9_StageFatalEndsFailed ==
    /\ (stage \notin {"Idle", "Ingesting"} /\ file_paths = <<>>) => stage = "Failed"
    /\ merge_status \in {"missing_inputs", "not_created", "not_saved"} =>
            stage = "Failed"
    /\ stage = "Failed" => ~exhibits_generated

\* C10: after a completed run the session holds the exhibit list of that
\* run, compression statistics only if that run computed them (and then its
\* own), and an output file only if that run saved one.
C10_ManifestOfLatestRun ==
    stage = "Complete" =>
        /\ exhibit_list = exhibits
        /\ compression_stats.set =>
              /\ compression_results # <<>>
              /\ compression_stats.original_size = total_original_size
              /\ compression_stats.compressed_size = total_compressed_size
        /\ output_file # NULL => merge_status = "saved"

\* C11: a run is never ended by an exception of a per-document operation
\* while documents of the batch are still waiting: a run that failed in the
\* Ingesting or the Numbering stage had gone through every source.
C11_PerDocumentFailuresContained ==
    (stage = "Failed" /\ failed_in \in {"Ingesting", "Numbering"}) =>
        /\ i = Len(sources)
        /\ Len(file_paths) + warnings = Len(sources)

(***************************************************************************)
(* Properties of the labelling.                                            *)
(***************************************************************************)
Alphabet == <<"A", "B", "C", "D", "E", "F", "G", "H", "I", "J", "K", "L", "M",
              "N", "O", "P", "Q", "R", "S", "T", "U", "V", "W", "X", "Y", "Z">>

\* labels made of one or two capital letters
LetterWords ==
    {Alphabet[a] : a \in 1..26} \cup
    {Alphabet[a] \o Alphabet[b] : a, b \in 1..26}

\* the decimal and the Roman numerals of 1..30, written out
Decimals == <<"1", "2", "3", "4", "5", "6", "7", "8", "9", "10",
              "11", "12", "13", "14", "15", "16", "17", "18", "19", "20",
              "21", "22", "23", "24", "25", "26", "27", "28", "29", "30">>
Romans == <<"I", "II", "III", "IV", "V", "VI", "VII", "VIII", "IX", "X",
            "XI", "XII", "XIII", "XIV", "XV", "XVI", "XVII", "XVIII", "XIX", "XX",
            "XXI", "XXII", "XXIII", "XXIV", "XXV", "XXVI", "XXVII", "XXVIII",
            "XXIX", "XXX">>

\* the label at position k (1-based) is one of its scheme
SchemeConsistent(style, k, label) ==
    CASE style = "letters" ->
            IF k <= 26 THEN label = Alphabet[k] ELSE label \in LetterWords
      [] style = "numbers" -> label = Decimals[k]
      [] style = "roman" -> label = Romans[k]

\* C12: for every number of documents and every numbering scheme, the
\* labels assigned are one per position, each one of its scheme (letters:
\* A, B, C, ..., made of capital letters only; numbers: "1", "2", "3", ...;
\* roman: "I", "II", "III", ...), and no two positions get the same label.
C12_LabelsSchemeConsistent ==
    /\ Len(labels) <= ldocs
    /\ \A k \in 1..Len(labels) : SchemeConsistent(lstyle, k, labels[k])
    /\ \A j, k \in 1..Len(labels) : j # k => labels[j] # labels[k]

(***************************************************************************)
(* Properties of the Results tab.                                          *)
(***************************************************************************)
\* the titles of a list, by position
Titles(list) == [k \in 1..Len(list) |-> list[k].title]

\* one adjacent pair of t exchanged gives u
AdjacentSwap(t, u) ==
    /\ Len(t) = Len(u)
    /\ \E a \in 1..(Len(t) - 1) :
          /\ u[a] = t[a + 1]
          /\ u[a + 1] = t[a]
          /\ \A k \in 1..Len(t) : k \notin {a, a + 1} => u[k] = t[k]

\* the label a fresh derivation gives the 1-based position k
FreshLabel(style, k) ==
    CASE style = "letters" -> Alphabet[k]
      [] style = "numbers" -> Decimals[k]
      [] style = "roman" -> Romans[k]

\* C13: every move-up or move-down exchanges two adjacent records and
\* leaves the list with, at every position, the label a fresh derivation
\* gives that position under the current numbering style, whatever record
\* stands there and whatever label it had.
C13_LabelsFollowPosition ==
    [][ exhibit_list' # exhibit_list =>
            /\ AdjacentSwap(Titles(exhibit_list), Titles(exhibit_list'))
            /\ \A k \in 1..Len(exhibit_list') :
                  exhibit_list'[k].number =
                      FreshLabel(current_numbering_style', k)
      ]_<<vars, cvars, restvars>>

\* the record that the run labelled "C" was moved to the front and is now
\* numbered "I", the current style being roman
C13_Witness ==
    /\ Len(exhibit_list) >= 3
    /\ exhibit_list[1].title = "c"
    /\ exhibit_list[1].number = "I"
    /\ exhibit_list[2].title = "a"
    /\ exhibit_list[2].number = "II"
    /\ current_numbering_style = "roman"

(***************************************************************************)
(* Properties of merge_pdfs.                                               *)
(***************************************************************************)
\* get_pdf_page_count of a path: the pages of a readable file, otherwise 0
PageCount(path, fs) ==
    IF fs[path].exists /\ fs[path].valid THEN fs[path].pages ELSE 0

RECURSIVE SumPageCounts(_, _)
SumPageCounts(paths, fs) ==
    IF paths = <<>> THEN 0
    ELSE PageCount(Head(paths), fs) + SumPageCounts(Tail(paths), fs)

\* the pages of the files of paths that exist, path after path
RECURSIVE ConcatExisting(_, _)
ConcatExisting(paths, fs) ==
    IF paths = <<>> THEN <<>>
    ELSE (IF fs[Head(paths)].exists
          THEN [k \in 1..fs[Head(paths)].pages |-> <<Head(paths), k>>]
          ELSE <<>>) \o ConcatExisting(Tail(paths), fs)

Missing(paths, fs) == {k \in 1..Len(paths) : ~fs[paths[k]].exists}

\* C14: the document merge_pdfs writes has as many pages as its inputs have
\* together: the pages of the TOC, if there is one, plus the pages of every
\* exhibit file.
C14_MergedPageCount ==
    mstate = "returned" => Len(merged) = SumPageCounts(pdf_paths, mfs)

\* a TOC of one page and two exhibit files of two pages were merged
C14_Witness ==
    /\ mstate = "returned"
    /\ Len(pdf_paths) = 3
    /\ pdf_paths[1] = TocFile
    /\ pdf_paths[2] # pdf_paths[3]
    /\ mfs[TocFile].pages = 1
    /\ mfs[pdf_paths[2]].pages = 2
    /\ mfs[pdf_paths[3]].pages = 2
    /\ Len(merged) = 5

\* C15: merge_pdfs does not fail because of a path that does not exist; it
\* writes the pages of exactly the existing inputs in the given order, the
\* TOC first when one was inserted; and every skipped path is reported by a
\* diagnostic.
C15_SkipsMissingWithDiagnostic ==
    /\ mstate = "raised" =>
          \E k \in 1..Len(pdf_paths) :
              mfs[pdf_paths[k]].exists /\ ~mfs[pdf_paths[k]].valid
    /\ mstate = "returned" =>
          /\ merged = ConcatExisting(pdf_paths, mfs)
          /\ \A k \in Missing(pdf_paths, mfs) :
                \E j \in 1..Len(mdiag) : mdiag[j] = pdf_paths[k]

\* what merge_pdfs does about missing paths: the same, without any
\* diagnostic
C15_SkipsMissingInOrder ==
    /\ mstate = "raised" =>
          \E k \in 1..Len(pdf_paths) :
              mfs[pdf_paths[k]].exists /\ ~mfs[pdf_paths[k]].valid
    /\ mstate = "returned" =>
          /\ merged = ConcatExisting(pdf_paths, mfs)
          /\ mdiag = <<>>

(***************************************************************************)
(* Properties of add_exhibit_number.                                       *)
(***************************************************************************)
\* C16: the document add_exhibit_number returns has as many pages as the
\* document it was given, also for a document that was annotated before and
\* is compressed and annotated again; and every overlay on page k of a
\* document of T pages reads "Page k of T".
C16_AnnotationKeepsPages ==
    \A d \in 1..Len(anumbered) :
        /\ Len(anumbered[d].pages) = Len(adocs[d])
        /\ \A k \in 1..Len(anumbered[d].pages) :
              \A j \in 1..Len(anumbered[d].pages[k]) :
                  /\ anumbered[d].pages[k][j].page = k
                  /\ anumbered[d].pages[k][j].of = Len(adocs[d])

\* a two-page document that carried the overlays of an earlier annotation
\* was compressed and annotated again
C16_Witness ==
    /\ Len(anumbered) >= 1
    /\ anumbered[1].annotated
    /\ anumbered[1].answer = "ok"
    /\ Len(anumbered[1].pages) = 2
    /\ Len(anumbered[1].pages[2]) = 2
    /\ anumbered[1].pages[2][2] = [exhibit |-> "A", page |-> 2, of |-> 2]

\* C17: add_exhibit_number never raises; when the annotation failed, at
\* whatever step, the document it returns is the one it was given,
\* unchanged; every document gets its exhibit record, and the loop goes on
\* to the end of the batch.
C17_AnnotationFailureContained ==
    /\ astate # "raised"
    /\ Len(aexhibits) = ai
    /\ Len(anumbered) = ai
    /\ astate = "done" => ai = Len(adocs)
    /\ \A d \in 1..Len(anumbered) :
          (anumbered[d].answer \in {"unreadable", "raised"}
              \/ anumbered[d].failure # "none") =>
                /\ ~anumbered[d].annotated
                /\ anumbered[d].pages = adocs[d]

\* writing the first document's annotated copy failed; the second document
\* was numbered all the same, and the loop ended
C17_Witness ==
    /\ astate = "done"
    /\ Len(anumbered) = 2
    /\ anumbered[1].failure = "write"
    /\ ~anumbered[1].annotated
    /\ anumbered[2].annotated
    /\ Len(aexhibits) = 2

(***************************************************************************)
(* Properties of the files of the runs.                                    *)
(***************************************************************************)
IntermediateKinds == {"input", "compressed", "annotated", "toc", "merged"}

\* C18: every intermediate file a run creates (saved input, compressed
\* output, annotated document, TOC, merged file before the copy) is created
\* in the run's own temporary directory, and when the run has ended,
\* whatever way, none of them is left.
C18_ScratchReleased ==
    /\ \A a \in accesses :
          (a.op = "write" /\ a.kind \in IntermediateKinds) =>
              a.path.dir = TmpDir(a.run)
    /\ \A r \in Runs :
          pc[r] = "ended" =>
              ~\E f \in disk : f.by = r /\ f.kind \in IntermediateKinds

\* C19: no path a run has written is written or read by another run.
C19_RunsShareNoPath ==
    \A a, b \in accesses :
        (a.run # b.run /\ a.op = "write") => a.path # b.path

(***************************************************************************)
(* Properties of the progress reports.                                     *)
(***************************************************************************)
\* C20: the events of a loop carry the indexes 1, 2, 3, ... in this order
\* and the number of documents of the loop as their total; the event of
\* document j is reported only when the operation on document j has
\* finished; and a loop that reports progress has reported one event per
\* document when it ends.
C20_ProgressAfterEachDocument ==
    /\ \A j \in 1..Len(bevents) :
          /\ bevents[j].current = j
          /\ bevents[j].total = btotal
          /\ bevents[j].processed >= j
    /\ (bphase = "done" /\ bcallback) => Len(bevents) = btotal

(***************************************************************************)
(* Properties of the calls of a run (checked under SpecI).                 *)
(***************************************************************************)
\* how many times a component has been called for a document
CallsOf(component, doc) ==
    Cardinality({j \in 1..Len(invocations) : invocations[j] = Call(component, doc)})

\* C21: in a run with compression enabled (and the compressor available),
\* the compressor is never called twice for a document and the overlay
\* never twice, the TOC generator and the merger are called at most once,
\* a call of the compressor for a document comes before the overlay of that
\* document, and a run that has ended has called the compressor and the
\* overlay exactly once for every document.
C21_EachComponentOncePerDocument ==
    HandlerCompresses(icfg) =>
        /\ \A d \in 1..icfg.ndocs :
              /\ CallsOf("compress", d) <= 1
              /\ CallsOf("annotate", d) <= 1
        /\ CallsOf("toc", 0) <= 1
        /\ CallsOf("merge", 0) <= 1
        /\ \A a, c \in 1..Len(invocations) :
              (/\ invocations[a].component = "annotate"
               /\ invocations[c].component = "compress"
               /\ invocations[a].doc = invocations[c].doc) => c < a
        /\ iphase = "done" =>
              \A d \in 1..icfg.ndocs :
                  /\ CallsOf("compress", d) = 1
                  /\ CallsOf("annotate", d) = 1

\* C21, the part that holds: whatever the options, the overlay is applied
\* at most once per document, the TOC generator and the merger are called at
\* most once, and no call of the compressor for a document follows the
\* overlay of that document
C21_OtherComponentsOnce ==
    /\ \A d \in 1..icfg.ndocs : CallsOf("annotate", d) <= 1
    /\ CallsOf("toc", 0) <= 1
    /\ CallsOf("merge", 0) <= 1
    /\ \A a, c \in 1..Len(invocations) :
          (/\ invocations[a].component = "annotate"
           /\ invocations[c].component = "compress"
           /\ invocations[a].doc = invocations[c].doc) => c < a

\* a run with compression has numbered a document
C21_Witness ==
    /\ HandlerCompresses(icfg)
    /\ CallsOf("compress", 1) = 2
    /\ CallsOf("annotate", 1) = 1

(***************************************************************************)
(* Properties of the statistics of a run (checked under Spec).             *)
(***************************************************************************)
\* the sum of compressed_size over the results kept
RECURSIVE SumCompressedSize(_)
SumCompressedSize(results) ==
    IF results = <<>> THEN 0
    ELSE Head(results).compressed_size + SumCompressedSize(Tail(results))

\* the documents of the run that did not come back compressed
NotCompressed ==
    {k \in 1..Len(compress_returns) : compress_returns[k] \in {"none", "skipped"}}

\* C22: once the compression phase has stored its statistics, the total
\* original size is the sum of the original sizes of all the documents of
\* the run, the total compressed size is the sum of their output sizes (the
\* original size for a document that was not compressed), and the average
\* reduction is (1 - total compressed / total original) * 100 of these.
C22_TotalsOverAllDocuments ==
    compression_stats.set =>
        LET original == Len(file_paths) * DocSize
            compressed == SumCompressedSize(compression_results)
                            + Cardinality(NotCompressed) * DocSize
        IN  /\ compression_stats.original_size = original
            /\ compression_stats.compressed_size = compressed
            /\ compression_stats.avg_reduction = AvgReduction(original, compressed)

\* C22, the part that holds: the statistics are the sums over the results
\* kept, which are those of the documents that were compressed, and the
\* average reduction is derived from these two sums
C22_TotalsOverKeptResults ==
    compression_stats.set =>
        /\ compression_stats.original_size = Len(compression_results) * DocSize
        /\ compression_stats.compressed_size = SumCompressedSize(compression_results)
        /\ compression_stats.avg_reduction =
              AvgReduction(compression_stats.original_size,
                           compression_stats.compressed_size)

\* the statistics of a run in which one document was compressed and another
\* was not
C22_Witness ==
    /\ compression_stats.set
    /\ NotCompressed # {}
    /\ Len(compress_returns) = Len(file_paths)

BudgetOf(func) ==
    IF func = "generate_table_of_contents" THEN TitleBudget ELSE NameBudget

\* C24: a table of contents that was generated has exactly one data row per
\* exhibit record, row k being the row of record k: it carries the number of
\* record k and starts with the characters of record k's title up to the
\* budget; and whether the function returned or raised, every exhibit
\* record is as it was handed in, its full title included.
C24_TocMirrorsRecords ==
    /\ tstate = "returned" =>
          /\ Len(trows) = Len(tgiven)
          /\ \A k \in 1..Len(tgiven) :
                /\ trows[k].exhibit = "Exhibit " \o tgiven[k].number
                /\ IsPrefix(Take(tgiven[k].text, BudgetOf(tfunc)), trows[k].text)
    /\ texhibits = tgiven

\* a table of two exhibits has been generated, the first title longer than
\* the budget and cut in its row, the second short
C24_Witness ==
    /\ tstate = "returned"
    /\ Len(tgiven) = 2
    /\ Len(tgiven[1].text) > BudgetOf(tfunc)
    /\ trows[1].text # tgiven[1].text
    /\ Len(tgiven[2].text) < Len(tgiven[1].text)
    /\ texhibits[1].text = tgiven[1].text

(***************************************************************************)
(* Properties of the compression summaries of the exhibit records          *)
(* (checked under Spec).                                                   *)
(***************************************************************************)
\* compress came back with success for the document at position k
CompressedOk(k) ==
    /\ k <= Len(compress_returns)
    /\ compress_returns[k] \notin {"none", "skipped"}

\* C25: the compression summary of an exhibit record is that of the
\* record's own document: a record has a summary exactly when compress
\* succeeded on its document, and the method of the summary is the method
\* compress returned for that document.
C25_SummaryOfOwnDocument ==
    \A k \in 1..Len(exhibit_list) :
        /\ exhibit_list[k].compression.has <=> CompressedOk(k)
        /\ exhibit_list[k].compression.has =>
              exhibit_list[k].compression.method = compress_returns[k]

\* C25, the part that holds: a summary is always the result that some
\* document of the run was compressed to, and the record at position k
\* carries the k-th result kept
C25_SummaryOfKeptResult ==
    \A k \in 1..Len(exhibit_list) :
        exhibit_list[k].compression.has <=> k <= Len(compression_results)

\* the records of a run in which the first document was not compressed and
\* the second was
C25_Witness ==
    /\ Len(exhibit_list) = 2
    /\ Len(compress_returns) = 2
    /\ ~CompressedOk(1)
    /\ CompressedOk(2)
    /\ exhibit_list[1].compression.has
    /\ ~exhibit_list[2].compression.has

(***************************************************************************)
(* Properties of the download loops (checked under SpecD).                 *)
(***************************************************************************)
\* C26: the paths collected in file_paths are pairwise distinct, and the
\* file at each of them still holds the content of the source it was
\* downloaded from: no later download has overwritten it.
C26_DownloadsAreDistinct ==
    /\ \A a, b \in 1..Len(dpaths) : a # b => dpaths[a] # dpaths[b]
    /\ \A k \in 1..Len(dpaths) :
          [path |-> dpaths[k], source |-> dorigin[k]] \in ddisk

\* C26, the part that holds: every path of file_paths is a file of tmp_dir
\* named after its source, and sources with different derived names are
\* saved at different paths
C26_DistinctNamesAreKept ==
    \A a, b \in 1..Len(dpaths) :
        /\ \E f \in ddisk : f.path = dpaths[a]
        /\ dpaths[a].name = SavedName(dvariant, dsources[dorigin[a]])
        /\ dpaths[a].name # dpaths[b].name => dpaths[a] # dpaths[b]

\* two different sources with the same derived name have both been
\* downloaded
C26_Witness ==
    /\ Len(dpaths) = 2
    /\ dsources[1] # dsources[2]
    /\ dpaths[1] = dpaths[2]
    /\ [path |-> dpaths[1], source |-> 1] \notin ddisk

(***************************************************************************)
(* Properties of the reordering of the Results tab (checked under SpecR).  *)
(***************************************************************************)
\* the records of a list without their numbers
Unnumbered(list) ==
    [k \in 1..Len(list) |->
        [title |-> list[k].title,
         filename |-> list[k].filename,
         pages |-> list[k].pages,
         compression |-> list[k].compression]]

\* C27: a handler that changes the exhibit list exchanges two adjacent
\* records, inside the list (the first record does not move up, the last
\* does not move down), and leaves the number of records, every record's
\* title, filename, page count and compression summary, the compression
\* statistics and the output_file reference as they were.
C27_MoveKeepsRecords ==
    [][ exhibit_list' # exhibit_list =>
            /\ Len(exhibit_list') = Len(exhibit_list)
            /\ AdjacentSwap(Unnumbered(exhibit_list), Unnumbered(exhibit_list'))
            /\ compression_stats' = compression_stats
            /\ output_file' = output_file
      ]_<<vars, cvars, restvars>>

\* a record with a compression summary has been moved to the front of a
\* list whose run stored statistics and an output file
C27_Witness ==
    /\ rhandler \in {"move_up", "move_down"}
    /\ Len(exhibit_list) >= 3
    /\ exhibit_list[1].title = DocNames[2]
    /\ exhibit_list[1].compression.has
    /\ compression_stats.set
    /\ output_file # NULL

\* C28: once "Reset to Original Order" has run, the exhibit list is in the
\* order in which the run generated the exhibits.
C28_ResetRestoresOrder ==
    rhandler = "reset" =>
        \A k \in 1..Len(exhibit_list) : exhibit_list[k].title = DocNames[k]

\* C28, the part that holds: the reset keeps every record and the order the
\* list is in
C28_ResetKeepsList ==
    [][ rhandler' = "reset" => exhibit_list' = exhibit_list ]_<<vars, cvars, restvars>>

\* the reset has run on a list that a move had put out of its original order
C28_Witness ==
    /\ rhandler = "reset"
    /\ exhibit_list[1].title # DocNames[1]

(***************************************************************************)
(* Properties of ExhibitProcessor (checked under SpecP).                   *)
(***************************************************************************)
\* C29: get_exhibit_count is the number of adds since the last clear; a
\* package that process_exhibits returned lists the exhibits added since
\* the last clear in the order they were added, lettered by position, its
\* total_exhibits is that number of adds and is successful_exhibits +
\* failed_exhibits; and the processor's list is still the list of those
\* adds.
C29_ProcessorKeepsInsertionOrder ==
    /\ GetExhibitCount(pexhibits) = Len(padded)
    /\ pexhibits = padded
    /\ ppackage.state = "returned" =>
          /\ Len(ppackage.exhibits) = Len(padded)
          /\ \A k \in 1..Len(padded) :
                /\ ppackage.exhibits[k].title = padded[k].title
                /\ ppackage.exhibits[k].original_url = padded[k].url
                /\ ppackage.exhibits[k].exhibit_letter = Alphabet[k]
          /\ ppackage.total_exhibits = Len(padded)
          /\ ppackage.total_exhibits =
                ppackage.successful_exhibits + ppackage.failed_exhibits

\* after a clear, a file and then a URL were added and processed, one of
\* them failing
C29_Witness ==
    /\ pcleared
    /\ ppackage.state = "returned"
    /\ ppackage.total_exhibits = 2
    /\ ppackage.exhibits[1].original_url = NULL
    /\ ppackage.exhibits[2].original_url # NULL
    /\ ppackage.exhibits[2].title = "webpage"
    /\ ppackage.failed_exhibits = 1

(***************************************************************************)
(* Properties of to_roman (checked under SpecN).                           *)
(***************************************************************************)
\* the standard Roman numeral of n, 1 <= n <= 3999, digit by digit
RomanThousands == <<"", "M", "MM", "MMM">>
RomanHundreds == <<"", "C", "CC", "CCC", "CD", "D", "DC", "DCC", "DCCC", "CM">>
RomanTens == <<"", "X", "XX", "XXX", "XL", "L", "LX", "LXX", "LXXX", "XC">>
RomanUnits == <<"", "I", "II", "III", "IV", "V", "VI", "VII", "VIII", "IX">>
StandardRoman(n) ==
    RomanThousands[(n \div 1000) + 1] \o RomanHundreds[((n \div 100) % 10) + 1]
        \o RomanTens[((n \div 10) % 10) + 1] \o RomanUnits[(n % 10) + 1]

\* distinct arguments give distinct numerals
ToRomanIsInjective ==
    Cardinality({ToRoman(n) : n \in 1..MaxRoman}) = MaxRoman

\* what is left of a call: it is a natural number and every statement
\* makes it smaller
ToRomanMeasure ==
    IF npc \in {"while", "for"}
    THEN nnum + 2 * (Len(RomanVal) + 1 - ni) + (IF npc = "while" THEN 1 ELSE 0)
    ELSE 0

\* C30: a call of to_roman never reads its tables past their end and every
\* statement brings it closer to its return, so it terminates; what it
\* returns for 1 <= n <= 3999 is the standard Roman numeral of n; and
\* distinct arguments give distinct numerals, so the Roman labels of a run
\* (to_roman(1), to_roman(2), ...) are pairwise distinct.
C30_ToRomanIsStandard ==
    /\ [](/\ npc # "IndexError"
          /\ ToRomanMeasure >= 0
          /\ nnum >= 0
          /\ npc = "done" =>
                /\ nroman_num = ToRoman(narg)
                /\ narg <= 3999 => nroman_num = StandardRoman(narg)
          /\ ToRomanIsInjective)
    /\ [][ToRomanMeasure' < ToRomanMeasure]_nvars

\* to_roman(3999) has returned
C30_Witness ==
    /\ npc = "done"
    /\ narg = 3999
    /\ nroman_num = "MMMCMXCIX"
    /\ ni = 10

====
